---- MODULE Spec2Model ----
(***************************************************************************)
(* A model of the BlenderRayTracer page: the scene loader                  *)
(* (js/scene-loader.js), the renderer's cooperative render loop            *)
(* (js/ray-tracer.js), the handlers of the control panel                   *)
(* (js/ui-controller.js), the hit methods (js/geometry.js, js/world.js),   *)
(* the materials (js/materials.js) and RayTracer.rayColor.                 *)
(*                                                                         *)
(* Conventions.  A JSON object is a record whose DOMAIN holds exactly the  *)
(* fields the document gives; a missing field is a missing record field.   *)
(* JSON null is the record JSNull.  A JSON array is a sequence; a value    *)
(* that is not an array where one is expected is the empty sequence.       *)
(* Coordinates, radii, fov and focus distance are integers; the aperture   *)
(* is counted in hundredths;                                                *)
(* colours, ior, roughness and intensities are counted in tenths           *)
(* (0.8 is 8, 1.5 is 15).  A type tag is a string.                          *)
(***************************************************************************)
EXTENDS Integers, Sequences, FiniteSets, TLC

VARIABLES
    \* ---- window globals (ui-controller.js) ----
    isRendering,      \* window.isRendering
    renderCancelled,  \* window.renderCancelled
    status,           \* text of the #status element (its kind)
    \* ---- RayTracer fields (ray-tracer.js) ----
    world,            \* this.world
    camera,           \* this.camera
    width,            \* this.width
    height,           \* this.height
    imageData,        \* this.imageData: [id, w, h], id names the ImageData object
    denoising,        \* this.denoising
    allocs,           \* number of ImageData objects created so far
    \* ---- the activation of RayTracer.render ----
    rpc,              \* where the render coroutine is suspended
    row,              \* j
    col,              \* i
    pixelCount,       \* pixelCount
    totalPixels,      \* totalPixels (const, captured at the start)
    passHeight,       \* this.height when the row loop started (j starts at passHeight - 1)
    updateInterval,   \* updateInterval (const, captured at the start)
    overBudget,       \* performance.now() - rowStartTime > 50 has been seen in this row
    data,             \* the buffer captured by "const data": [id, px]
    floatData,        \* floatData
    progressLog,      \* the values handed to onProgress during this pass
    denoiseRuns,      \* calls of PostProcessor.denoise during this pass
    passes,           \* activations of RayTracer.render that have not returned
    outcome,          \* how the last UI render() ended
    \* ---- loadBlenderScene ----
    pending,          \* files handed to a FileReader whose promise is unsettled
    hung,             \* promises that can no longer settle
    loadsStarted,     \* loadBlenderScene calls so far
    loadsDone,        \* RayTracer.loadFromJSON calls so far
    loadRet,          \* return value of the last RayTracer.loadFromJSON call
    \* ---- one operation exercised on its own (SceneLoader.loadFromJSON,
    \*      World.hit, the TriangleMesh constructor, RayTracer.rayColor) ----
    doc,              \* the arguments handed to the operation
    result,           \* what it returned
    lpc               \* "input" before the call, the name of the call after it

uiVars == <<isRendering, renderCancelled, status, world, camera, width, height,
            imageData, denoising, allocs, rpc, row, col, pixelCount, totalPixels,
            passHeight, updateInterval, overBudget, data, floatData, progressLog, denoiseRuns,
            passes, outcome, pending, hung, loadsStarted, loadsDone, loadRet>>
loaderVars == <<doc, result, lpc>>
vars == <<uiVars, loaderVars>>

----------------------------------------------------------------------------
(* JSON values *)

JSNull == [null |-> TRUE]
Has(o, f) == f \in DOMAIN o
IsNull(o) == Has(o, "null")
NotAnArray == << >>

\* o.f || dflt for a field that holds an array or an object (always truthy)
FieldOr(o, f, dflt) == IF Has(o, f) THEN o[f] ELSE dflt
\* o.f !== undefined ? o.f : dflt
DefinedOr(o, f, dflt) == IF Has(o, f) THEN o[f] ELSE dflt
\* o.f || dflt for a numeric field: 0 is falsy
TruthyOr(o, f, dflt) == IF Has(o, f) /\ o[f] # 0 THEN o[f] ELSE dflt

----------------------------------------------------------------------------
(* Vec3 (math kernel) *)

Vec3(x, y, z) == <<x, y, z>>
sub(a, b) == <<a[1] - b[1], a[2] - b[2], a[3] - b[3]>>
add(a, b) == <<a[1] + b[1], a[2] + b[2], a[3] + b[3]>>
mul(a, s) == <<a[1] * s, a[2] * s, a[3] * s>>
dot(a, b) == a[1] * b[1] + a[2] * b[2] + a[3] * b[3]

\* Math.sqrt on the integers the model draws (exact on perfect squares)
Sqrt(n) == CHOOSE r \in 0..n : r * r <= n /\ (r + 1) * (r + 1) > n
length(a) == Sqrt(dot(a, a))

Abs(x) == IF x < 0 THEN -x ELSE x
RECURSIVE GCD(_, _)
GCD(a, b) == IF b = 0 THEN Abs(a) ELSE GCD(b, Abs(a) % Abs(b))
IDiv(x, d) == IF x >= 0 THEN x \div d ELSE -((-x) \div d)

\* A unit vector is represented by the primitive integer vector of the same
\* direction, so v.normalize() divides by the gcd of the components instead
\* of the length; the zero vector stays the zero vector (l > 0 ? ... : Vec3()).
normalize(a) ==
    LET g == GCD(GCD(a[1], a[2]), a[3])
    IN IF dot(a, a) > 0 THEN <<IDiv(a[1], g), IDiv(a[2], g), IDiv(a[3], g)>>
       ELSE Vec3(0, 0, 0)

\* A quotient a / b kept as a reduced fraction: <<0,0>> is NaN, <<1,0>> Infinity
Ratio(a, b) ==
    LET g == GCD(a, b) IN IF g = 0 THEN <<0, 0>> ELSE <<a \div g, b \div g>>
NaN == <<0, 0>>
One == <<1, 1>>
RLess(a, b) == a # NaN /\ b # NaN /\ a[1] * b[2] < b[1] * a[2]

----------------------------------------------------------------------------
(* Materials, lights, primitives, camera, world: what the constructors keep *)

Min(a, b) == IF a < b THEN a ELSE b
Max(a, b) == IF a > b THEN a ELSE b

Lambertian(albedo) == [type |-> "Lambertian", albedo |-> albedo]
Metal(albedo, roughness) ==
    [type |-> "Metal", albedo |-> albedo, roughness |-> Min(roughness, 10)]
Dielectric(refractionIndex) ==
    [type |-> "Dielectric", refractionIndex |-> refractionIndex]
Emissive(color, intensity) ==
    [type |-> "Emissive", color |-> color, intensity |-> intensity]

PointLight(position, color, intensity) ==
    [type |-> "PointLight", position |-> position, color |-> color,
     intensity |-> intensity]
DirectionalLight(direction, color, intensity) ==
    [type |-> "DirectionalLight", direction |-> normalize(direction),
     color |-> color, intensity |-> intensity]

Sphere(center, radius, material) ==
    [type |-> "Sphere", center |-> center, radius |-> radius, material |-> material]
Plane(point, normal, material) ==
    [type |-> "Plane", point |-> point, normal |-> normalize(normal),
     material |-> material]
Box(min, max, material) ==
    [type |-> "Box", min |-> min, max |-> max, material |-> material]
Triangle(v0, v1, v2, material) ==
    [type |-> "Triangle", v0 |-> v0, v1 |-> v1, v2 |-> v2, material |-> material]

\* TriangleMesh._ensureVec3; vertices[idx] outside the array is undefined
_ensureVec3(v) == IF Len(v) >= 3 THEN Vec3(v[1], v[2], v[3]) ELSE Vec3(0, 0, 0)
VertexAt(vertices, idx) ==
    IF idx >= 0 /\ idx < Len(vertices) THEN vertices[idx + 1] ELSE NotAnArray

\* the loop of the TriangleMesh constructor, from index position i (0-based)
RECURSIVE MeshTriangles(_, _, _, _)
MeshTriangles(vertices, indices, material, i) ==
    IF i >= Len(indices) THEN << >>
    ELSE IF i + 2 >= Len(indices)
         THEN MeshTriangles(vertices, indices, material, i + 3)
    ELSE LET idx0 == indices[i + 1]
             idx1 == indices[i + 2]
             idx2 == indices[i + 3]
         IN IF idx0 >= Len(vertices) \/ idx1 >= Len(vertices) \/ idx2 >= Len(vertices)
            THEN MeshTriangles(vertices, indices, material, i + 3)
            ELSE <<Triangle(_ensureVec3(VertexAt(vertices, idx0)),
                            _ensureVec3(VertexAt(vertices, idx1)),
                            _ensureVec3(VertexAt(vertices, idx2)), material)>>
                 \o MeshTriangles(vertices, indices, material, i + 3)
TriangleMesh(vertices, indices, material) ==
    [type |-> "TriangleMesh",
     triangles |-> MeshTriangles(vertices, indices, material, 0)]

\* Camera: w and v are kept as direction representatives (see normalize);
\* v = w x u with u = normalize(vup x w) is the part of vup orthogonal to w.
Camera(lookFrom, lookAt, vup, vfov, aspect, aperture, focusDist, type) ==
    LET w == normalize(sub(lookFrom, lookAt))
    IN [origin |-> lookFrom,
        w |-> w,
        v |-> normalize(sub(mul(vup, dot(w, w)), mul(w, dot(vup, w)))),
        fov |-> vfov, aspect |-> aspect, aperture |-> aperture,
        focusDist |-> focusDist, type |-> type]

\* World(): the background is named by the function installed on the World.
\*   skyGradient, proceduralSky   bound methods: ray -> colour
\*   solidBackground(), hdriBackground()   the closures the methods return
\*   solidBackground.bind, hdriBackground.bind   the methods themselves, bound
NewWorld ==
    [objects |-> << >>, lights |-> << >>,
     background |-> [fn |-> "skyGradient"], skyIntensity |-> 10]
WorldAdd(w, object) == [w EXCEPT !.objects = Append(@, object)]
WorldAddLight(w, light) == [w EXCEPT !.lights = Append(@, light)]

----------------------------------------------------------------------------
(* SceneLoader (js/scene-loader.js) *)

\* String.prototype.toLowerCase on the tags the model draws
toLowerCase(s) ==
    CASE s = "Sphere" -> "sphere"
      [] s = "MESH" -> "mesh"
      [] s = "Metal" -> "metal"
      [] s = "POINT" -> "point"
      [] OTHER -> s

\* (a parser whose fallback is the all-ones vector)
_parseVec3_mut(arr) ==
    IF Len(arr) >= 3 THEN Vec3(arr[1], arr[2], arr[3]) ELSE Vec3(1, 1, 1)
_parseVec3(arr) ==
    IF Len(arr) >= 3 THEN Vec3(arr[1], arr[2], arr[3]) ELSE Vec3(0, 0, 0)
_parseColor(arr) == _parseVec3(arr)

NoObject == [none |-> TRUE]
\* (a loader that adds whatever the factory returned)
IsNone_mut(x) == FALSE
IsNone(x) == Has(x, "none")
\* !x.type: the field is missing or the empty string
NoType(x) == ~Has(x, "type") \/ x.type = ""

_createMaterial(matData) ==
    IF NoType(matData) THEN Lambertian(Vec3(8, 8, 8))
    ELSE CASE toLowerCase(matData.type) = "lambertian" ->
                  Lambertian(_parseColor(FieldOr(matData, "color", NotAnArray)))
           [] toLowerCase(matData.type) = "metal" ->
                  Metal(_parseColor(FieldOr(matData, "color", NotAnArray)),
                        DefinedOr(matData, "roughness", 0))
           [] toLowerCase(matData.type) = "dielectric" ->
                  Dielectric(DefinedOr(matData, "ior", 15))
           [] toLowerCase(matData.type) = "emissive" ->
                  Emissive(_parseColor(FieldOr(matData, "color", NotAnArray)),
                           DefinedOr(matData, "intensity", 10))
           [] OTHER -> Lambertian(Vec3(8, 8, 8))

\* objData.type of a null entry is a TypeError
_createObjectThrows(objData) == IsNull(objData)

RECURSIVE MapParseVec3(_)
MapParseVec3(vs) ==
    IF vs = << >> THEN << >> ELSE <<_parseVec3(Head(vs))>> \o MapParseVec3(Tail(vs))

_createObject(objData) ==
    IF NoType(objData) THEN NoObject
    ELSE LET material == _createMaterial(FieldOr(objData, "material",
                             [type |-> "lambertian", color |-> <<8, 8, 8>>]))
             tag == toLowerCase(objData.type)
         IN CASE tag = "sphere" ->
                    Sphere(_parseVec3(FieldOr(objData, "center", NotAnArray)),
                           TruthyOr(objData, "radius", 1), material)
              [] tag = "plane" ->
                    Plane(_parseVec3(FieldOr(objData, "point", NotAnArray)),
                          _parseVec3(FieldOr(objData, "normal", NotAnArray)), material)
              [] tag = "box" ->
                    Box(_parseVec3(FieldOr(objData, "min", NotAnArray)),
                        _parseVec3(FieldOr(objData, "max", NotAnArray)), material)
              [] tag = "triangle" ->
                    Triangle(_parseVec3(FieldOr(objData, "v0", NotAnArray)),
                             _parseVec3(FieldOr(objData, "v1", NotAnArray)),
                             _parseVec3(FieldOr(objData, "v2", NotAnArray)), material)
              [] tag = "mesh" ->
                    IF ~Has(objData, "vertices") \/ ~Has(objData, "indices")
                    THEN NoObject
                    ELSE TriangleMesh(MapParseVec3(objData.vertices),
                                      objData.indices, material)
              [] OTHER -> NoObject

_createLight(lightData) ==
    IF IsNull(lightData) \/ NoType(lightData) THEN NoObject
    ELSE LET color == _parseColor(FieldOr(lightData, "color", <<10, 10, 10>>))
             intensity == DefinedOr(lightData, "intensity", 10)
             tag == toLowerCase(lightData.type)
         IN CASE tag = "point" ->
                    PointLight(_parseVec3(FieldOr(lightData, "position", NotAnArray)),
                               color, intensity)
              [] tag = "directional" ->
                    DirectionalLight(
                        _parseVec3(FieldOr(lightData, "direction", NotAnArray)),
                        color, intensity)
              [] OTHER -> NoObject

_createCamera(camData, aspect) ==
    LET position == _parseVec3(FieldOr(camData, "position", <<0, 0, 5>>))
        lookAt0 == _parseVec3(FieldOr(camData, "lookAt", <<0, 0, 0>>))
        up == _parseVec3(FieldOr(camData, "up", <<0, 1, 0>>))
        fov == DefinedOr(camData, "fov", 45)
        aperture == DefinedOr(camData, "aperture", 0)
        distanceToLookAt == length(sub(position, lookAt0))
        \* integer coordinates: a distance below 1 is the distance 0
        lookAt == IF distanceToLookAt < 1
                  THEN add(position,
                           mul(mul(normalize(sub(position, lookAt0)), -1), 100))
                  ELSE lookAt0
        focusDist == IF Has(camData, "focusDist") THEN camData.focusDist
                     ELSE length(sub(position, lookAt))
        type == IF Has(camData, "type") /\ camData.type # "" THEN camData.type
                ELSE "perspective"
        finalAspect == IF Has(camData, "aspect") /\ camData.aspect # 0
                       THEN Ratio(camData.aspect, 1) ELSE aspect
    IN Camera(position, lookAt, up, fov, finalAspect, aperture, focusDist, type)

NoCamera == [none |-> TRUE]
NoDimensions == [none |-> TRUE]

\* the background selection of loadFromJSON (lines 38-56)
LoadBackground(w, bg) ==
    LET fn == CASE Has(bg, "type") /\ bg.type = "gradient" -> [fn |-> "skyGradient"]
                [] Has(bg, "type") /\ bg.type = "solid" ->
                       [fn |-> "solidBackground.bind",
                        color |-> _parseColor(FieldOr(bg, "color", <<1, 1, 1>>))]
                [] Has(bg, "type") /\ bg.type = "hdri" -> [fn |-> "hdriBackground.bind"]
                [] Has(bg, "type") /\ bg.type = "procedural_sky" ->
                       [fn |-> "proceduralSky"]
                [] OTHER -> [fn |-> "skyGradient"]
    IN [w EXCEPT !.background = fn,
                 !.skyIntensity = DefinedOr(bg, "intensity", @)]

RECURSIVE LoadObjects(_, _)
LoadObjects(w, objs) ==
    IF objs = << >> THEN w
    ELSE LET object == _createObject(Head(objs))
         IN LoadObjects(IF IsNone(object) THEN w ELSE WorldAdd(w, object), Tail(objs))

RECURSIVE LoadLights(_, _)
LoadLights(w, ls) ==
    IF ls = << >> THEN w
    ELSE LET light == _createLight(Head(ls))
         IN LoadLights(IF IsNone(light) THEN w ELSE WorldAddLight(w, light), Tail(ls))

\* SceneLoader.loadFromJSON throws on a null document and on a null object entry
SceneLoaderThrows(jsonData) ==
    \/ IsNull(jsonData)
    \/ /\ Has(jsonData, "objects")
       /\ \E k \in 1..Len(jsonData.objects) : _createObjectThrows(jsonData.objects[k])

SceneLoader_loadFromJSON(jsonData, w, h) ==
    LET hasRes == Has(jsonData, "camera") /\ Has(jsonData.camera, "resolution")
        newDimensions == IF hasRes
                         THEN [width |-> jsonData.camera.resolution[1],
                               height |-> jsonData.camera.resolution[2]]
                         ELSE NoDimensions
        w1 == IF hasRes THEN newDimensions.width ELSE w
        h1 == IF hasRes THEN newDimensions.height ELSE h
        wb == IF Has(jsonData, "background")
              THEN LoadBackground(NewWorld, jsonData.background) ELSE NewWorld
        wo == IF Has(jsonData, "objects") THEN LoadObjects(wb, jsonData.objects) ELSE wb
        wl == IF Has(jsonData, "lights") THEN LoadLights(wo, jsonData.lights) ELSE wo
    IN [world |-> wl,
        camera |-> IF Has(jsonData, "camera")
                   THEN _createCamera(jsonData.camera, Ratio(w1, h1)) ELSE NoCamera,
        newDimensions |-> newDimensions]

----------------------------------------------------------------------------
(* Bounds *)

CanvasWidth == 2      \* <canvas width=...> of the page, scaled down
CanvasHeight == 2     \* <canvas height=...> of the page, scaled down
MaxLoads == 1         \* loadBlenderScene calls explored
MaxObjects == 2       \* entries per list in a scene description

----------------------------------------------------------------------------
(* RayTracer: scenes and camera (js/ray-tracer.js) *)

\* The preset scenes.  No property depends on the coordinates of the preset
\* primitives, so each list keeps, in order, the kind of every primitive and
\* of its material; lights keep their kind.
Prim(kind, mat) == [type |-> kind, material |-> [type |-> mat]]
Lgt(kind) == [type |-> kind]

setupDefaultScene(w, h) ==
    [world |-> [NewWorld EXCEPT
                  !.objects = <<Prim("Plane", "Lambertian"), Prim("Sphere", "Lambertian"),
                                Prim("Sphere", "Dielectric"), Prim("Sphere", "Metal"),
                                Prim("Sphere", "Emissive")>>,
                  !.lights = <<Lgt("PointLight"), Lgt("DirectionalLight")>>],
     camera |-> Camera(Vec3(3, 2, 2), Vec3(0, 0, -1), Vec3(0, 1, 0), 45,
                       Ratio(w, h), 0, 10, "perspective")]

setupGlassScene(w, h) ==
    [world |-> [NewWorld EXCEPT
                  !.objects = <<Prim("Plane", "Lambertian"), Prim("Sphere", "Dielectric"),
                                Prim("Sphere", "Dielectric"), Prim("Sphere", "Dielectric"),
                                Prim("Sphere", "Dielectric"), Prim("Sphere", "Emissive")>>,
                  !.lights = <<Lgt("PointLight")>>],
     camera |-> Camera(Vec3(3, 2, 2), Vec3(0, 0, -1), Vec3(0, 1, 0), 45,
                       Ratio(w, h), 2, Sqrt(3 * 3 + 2 * 2 + 3 * 3), "perspective")]

setupMetalScene(w, h) ==
    [world |-> [NewWorld EXCEPT
                  !.objects = <<Prim("Plane", "Lambertian"), Prim("Sphere", "Metal"),
                                Prim("Sphere", "Metal"), Prim("Sphere", "Metal"),
                                Prim("Box", "Metal"), Prim("Sphere", "Emissive")>>,
                  !.lights = <<Lgt("PointLight"), Lgt("DirectionalLight")>>],
     camera |-> Camera(Vec3(4, 2, 3), Vec3(0, 0, -1), Vec3(0, 1, 0), 45,
                       Ratio(w, h), 0, 10, "perspective")]

setupCornellBox(w, h) ==
    [world |-> [NewWorld EXCEPT
                  !.objects = <<Prim("Plane", "Lambertian"), Prim("Plane", "Lambertian"),
                                Prim("Plane", "Lambertian"), Prim("Plane", "Lambertian"),
                                Prim("Plane", "Lambertian"), Prim("Box", "Lambertian"),
                                Prim("Box", "Lambertian"), Prim("Sphere", "Dielectric"),
                                Prim("Sphere", "Metal"), Prim("Box", "Emissive")>>,
                  !.background = [fn |-> "solidBackground()", color |-> <<0, 0, 0>>]],
     camera |-> Camera(Vec3(0, 0, 2), Vec3(0, 0, -1), Vec3(0, 1, 0), 40,
                       Ratio(w, h), 0, 10, "perspective")]

\* RayTracer.loadPreset: this.world = new World(), then the setup function
RT_loadPreset(presetName, w, h) ==
    CASE presetName = "glass" -> setupGlassScene(w, h)
      [] presetName = "metal" -> setupMetalScene(w, h)
      [] presetName = "cornell" -> setupCornellBox(w, h)
      [] OTHER -> setupDefaultScene(w, h)

\* RayTracer.refreshScene
refreshScene(w, h) == setupDefaultScene(w, h)

\* x || dflt on a number
OrNum(x, dflt) == IF x # 0 THEN x ELSE dflt
OrStr(x, dflt) == IF x # "" THEN x ELSE dflt

\* RayTracer.setupCamera: the camera rebuilt for the current width / height
setupCamera(cam, w, h) ==
    Camera(cam.origin, sub(cam.origin, mul(cam.w, cam.focusDist)), cam.v,
           OrNum(cam.fov, 45), Ratio(w, h), OrNum(cam.aperture, 0),
           OrNum(cam.focusDist, 10), OrStr(cam.type, "perspective"))

\* RayTracer.updateCamera.  params gives position, lookAt and up together or
\* not at all (every caller in ui-controller.js does); a missing numeric
\* field is a missing record field, a NaN from parseFloat is 0 (both falsy).
updateCamera(cam, params, w, h) ==
    LET lookFrom == IF Has(params, "position") THEN params.position ELSE cam.origin
        lookAt == IF Has(params, "lookAt") THEN params.lookAt
                  ELSE sub(cam.origin, mul(cam.w, OrNum(cam.focusDist, 10)))
        vup == IF Has(params, "up") THEN params.up ELSE cam.v
    IN Camera(lookFrom, lookAt, vup,
              OrNum(TruthyOr(params, "fov", 0), OrNum(cam.fov, 45)),
              Ratio(w, h),
              OrNum(TruthyOr(params, "aperture", 0), OrNum(cam.aperture, 0)),
              OrNum(TruthyOr(params, "focusDist", 0), OrNum(cam.focusDist, 10)),
              IF Has(params, "type") /\ params.type # "" THEN params.type
              ELSE OrStr(cam.type, "perspective"))

\* RayTracer.updateBackground
updateBackground(wd, type, intensity) ==
    [wd EXCEPT !.skyIntensity = intensity,
               !.background =
                   CASE type = "solid" ->
                            [fn |-> "solidBackground()", color |-> <<1, 1, 1>>]
                     [] type = "hdri" -> [fn |-> "hdriBackground()"]
                     [] type = "procedural_sky" -> [fn |-> "proceduralSky"]
                     [] OTHER -> [fn |-> "skyGradient"]]

\* CanvasRenderingContext2D.createImageData(sw, sh) raises IndexSizeError
\* when one of the sizes is zero (resizeCanvas, line 608)
createImageDataThrows(sw, sh) == sw = 0 \/ sh = 0

\* The renderer state the next three operators take and return is
\* rt = [world, camera, width, height, imageData, allocs]; ret is the value
\* RayTracer.loadFromJSON returns.

\* RayTracer.resizeCanvas: width and height are assigned before
\* createImageData is called, the camera is rebuilt after it
resizeCanvas(rt, nw, nh) ==
    IF createImageDataThrows(nw, nh)
    THEN [rt |-> [rt EXCEPT !.width = nw, !.height = nh], ret |-> FALSE]
    ELSE [rt |-> [rt EXCEPT !.width = nw, !.height = nh,
                            !.imageData = [id |-> rt.allocs + 1, w |-> nw, h |-> nh],
                            !.allocs = rt.allocs + 1,
                            !.camera = setupCamera(rt.camera, nw, nh)],
          ret |-> TRUE]

\* RayTracer.loadFromJSON, lines 311-326: what the try block does with the
\* value SceneLoader.loadFromJSON returned
installScene(rt, res) ==
    IF IsNone(res.newDimensions)
    THEN [rt |-> [rt EXCEPT !.world = res.world,
                            !.camera = IF IsNone(res.camera) THEN @ ELSE res.camera],
          ret |-> TRUE]
    ELSE resizeCanvas([rt EXCEPT !.world = res.world,
                                 !.camera = IF IsNone(res.camera) THEN @ ELSE res.camera],
                      res.newDimensions.width, res.newDimensions.height)

\* RayTracer.loadFromJSON: an exception of SceneLoader.loadFromJSON or of
\* resizeCanvas is caught and false is returned
RT_loadFromJSON(rt, jsonData) ==
    IF SceneLoaderThrows(jsonData) THEN [rt |-> rt, ret |-> FALSE]
    ELSE installScene(rt, SceneLoader_loadFromJSON(jsonData, rt.width, rt.height))

----------------------------------------------------------------------------
(* RayTracer.render (js/ray-tracer.js, lines 166-281) *)

\* The three polls of window.renderCancelled inside the row loop and the
\* test that guards the completion block
RowPoll(cancelled) == cancelled          \* line 190
\* a column loop that never looks at the flag
PixelPoll_mut(cancelled) == FALSE
PixelPoll(cancelled) == cancelled        \* line 196
AfterRowPoll(cancelled) == cancelled     \* line 256
\* a completion block that runs whatever the flag says
FinalGuard_mut(cancelled) == TRUE
FinalGuard(cancelled) == ~cancelled      \* line 264

\* A buffer of n pixels as createImageData / new Float32Array leave it
Blank(n) == [k \in 1..n |-> << >>]
\* the colour of the pixel sampled at image coordinate (i, j); the third
\* component is 1 once the denoise pass has rewritten the pixel
Colour(i, j) == <<i + 1, j + 1, 0>>
\* buf[pixelIndex] = v: a typed array ignores a store outside its bounds
Store(buf, pixelIndex, v) ==
    IF pixelIndex >= 0 /\ pixelIndex < Len(buf)
    THEN [buf EXCEPT ![pixelIndex + 1] = v] ELSE buf

\* PostProcessor.denoise followed by the re-quantization loop of lines 270-275
Denoised(fd) ==
    [k \in DOMAIN fd |-> IF fd[k] = << >> THEN <<0, 0, 1>> ELSE <<fd[k][1], fd[k][2], 1>>]

\* progress = pixelCount / totalPixels
Progress(count, total) == Ratio(count, total)

\* the onProgress callback render() of ui-controller.js passes (lines 189-200)
OnProgressStatus(st, cancelled, progress) ==
    IF cancelled THEN st
    ELSE IF RLess(progress, One) THEN "progress" ELSE st

\* After the row loop: lines 264-280
Finish(r, cancelled, dn) ==
    IF FinalGuard(cancelled)
    THEN [r EXCEPT !.rpc = "returned",
                   !.px = IF dn THEN Denoised(r.floatData) ELSE @,
                   !.denoiseRuns = IF dn THEN @ + 1 ELSE @,
                   !.progressLog = Append(@, One),
                   !.status = OnProgressStatus(@, cancelled, One)]
    ELSE [r EXCEPT !.rpc = "returned"]

\* The column loop from column i on, up to the next await.  slowAt is the
\* first column at which performance.now() - rowStartTime exceeds 50.
RECURSIVE RunRow(_, _, _, _, _, _, _, _, _)
RunRow(r, i, cancelled, w, h, total, interval, slowAt, dn) ==
    IF i < w /\ ~PixelPoll(cancelled)
    THEN LET pixelIndex == (h - 1 - r.row) * w + i
             r1 == [r EXCEPT !.floatData = Store(@, pixelIndex, Colour(i, r.row)),
                             !.px = Store(@, pixelIndex, Colour(i, r.row)),
                             !.pixelCount = @ + 1,
                             !.col = i]
             preview == i % interval = 0 \/ i = w - 1
             over == r.overBudget \/ i >= slowAt
         IN IF preview /\ over
            THEN [r1 EXCEPT !.rpc = "inRow", !.overBudget = TRUE]
            ELSE RunRow(r1, i + 1, cancelled, w, h, total, interval, slowAt, dn)
    ELSE IF AfterRowPoll(cancelled) THEN Finish(r, cancelled, dn)
    ELSE LET progress == Progress(r.pixelCount, total)
         IN [r EXCEPT !.rpc = "rowEnd",
                      !.progressLog = Append(@, progress),
                      !.status = OnProgressStatus(@, cancelled, progress)]

\* The row loop entered with j: the loop test, the poll of line 190, the row
RowLoop(r, j, cancelled, w, h, total, interval, slowAt, dn) ==
    IF j >= 0 /\ ~RowPoll(cancelled)
    THEN RunRow([r EXCEPT !.row = j, !.overBudget = FALSE], 0,
                cancelled, w, h, total, interval, slowAt, dn)
    ELSE Finish(r, cancelled, dn)

----------------------------------------------------------------------------
(* The control panel (js/ui-controller.js) *)

\* render(): if (window.isRendering) return;
\* (a render() without the guard)
RenderGuard_mut(rendering) == TRUE
RenderGuard(rendering) == ~rendering

\* render(), lines 202-207: the status the pass ends with
\* (first a render() that reports completion without looking at the flag)
RenderOutcome_mut(cancelled) == "complete"
RenderOutcome(cancelled) == IF cancelled THEN "cancelled" ELSE "complete"

\* changeCameraPosition: the table of positions
cameraPositions ==
    [default |-> [position |-> <<3, 2, 2>>, lookAt |-> <<0, 0, -1>>,
                  up |-> <<0, 1, 0>>, fov |-> 45],
     top |-> [position |-> <<0, 6, 0>>, lookAt |-> <<0, 0, -1>>,
              up |-> <<0, 0, -1>>, fov |-> 60],
     front |-> [position |-> <<0, 1, 4>>, lookAt |-> <<0, 0, -1>>,
                up |-> <<0, 1, 0>>, fov |-> 50],
     side |-> [position |-> <<5, 1, 1>>, lookAt |-> <<0, 0, -1>>,
               up |-> <<0, 1, 0>>, fov |-> 45]]

Remove(seq, k) == SubSeq(seq, 1, k - 1) \o SubSeq(seq, k + 1, Len(seq))

NoResult == [none |-> TRUE]

UIInit ==
    /\ isRendering = FALSE
    /\ renderCancelled = FALSE
    /\ status = "initialized"
    /\ world = setupDefaultScene(CanvasWidth, CanvasHeight).world
    /\ camera = setupDefaultScene(CanvasWidth, CanvasHeight).camera
    /\ width = CanvasWidth
    /\ height = CanvasHeight
    /\ imageData = [id |-> 0, w |-> CanvasWidth, h |-> CanvasHeight]
    /\ denoising = FALSE
    /\ allocs = 0
    /\ rpc = "idle"
    /\ row = 0
    /\ col = 0
    /\ pixelCount = 0
    /\ totalPixels = 0
    /\ passHeight = 0
    /\ updateInterval = 1
    /\ overBudget = FALSE
    /\ data = [id |-> 0, px |-> Blank(CanvasWidth * CanvasHeight)]
    /\ floatData = << >>
    /\ progressLog = << >>
    /\ denoiseRuns = 0
    /\ passes = 0
    /\ outcome = "none"
    /\ pending = << >>
    /\ hung = 0
    /\ loadsStarted = 0
    /\ loadsDone = 0
    /\ loadRet = "none"

Init == UIInit /\ doc = JSNull /\ result = NoResult /\ lpc = "off"

\* the activation record of RayTracer.render as the operators above take it
Activation ==
    [rpc |-> rpc, row |-> row, col |-> col, pixelCount |-> pixelCount,
     overBudget |-> overBudget, px |-> data.px, floatData |-> floatData,
     progressLog |-> progressLog, denoiseRuns |-> denoiseRuns, status |-> status]

\* The state after a segment of RayTracer.render ran up to its next await (r
\* suspended) or to its return; in the second case the rest of render() of
\* ui-controller.js (lines 202-220) runs in the same turn of the event loop.
\* started is 1 when the segment is the first one of a new activation.
\* (a render() without its finally block)
AfterSegment_mut(r, cancelled, started) ==
    /\ row' = r.row
    /\ col' = r.col
    /\ pixelCount' = r.pixelCount
    /\ overBudget' = r.overBudget
    /\ floatData' = r.floatData
    /\ progressLog' = r.progressLog
    /\ denoiseRuns' = r.denoiseRuns
    /\ IF r.rpc = "returned"
       THEN /\ rpc' = "idle"
            /\ status' = RenderOutcome(cancelled)
            /\ outcome' = RenderOutcome(cancelled)
            /\ isRendering' = TRUE
            /\ passes' = passes + started - 1
       ELSE /\ rpc' = r.rpc
            /\ status' = r.status
            /\ outcome' = IF started = 1 THEN "running" ELSE outcome
            /\ isRendering' = TRUE
            /\ passes' = passes + started
AfterSegment(r, cancelled, started) ==
    /\ row' = r.row
    /\ col' = r.col
    /\ pixelCount' = r.pixelCount
    /\ overBudget' = r.overBudget
    /\ floatData' = r.floatData
    /\ progressLog' = r.progressLog
    /\ denoiseRuns' = r.denoiseRuns
    /\ IF r.rpc = "returned"
       THEN /\ rpc' = "idle"
            /\ status' = RenderOutcome(cancelled)
            /\ outcome' = RenderOutcome(cancelled)
            /\ isRendering' = FALSE
            /\ passes' = passes + started - 1
       ELSE /\ rpc' = r.rpc
            /\ status' = r.status
            /\ outcome' = IF started = 1 THEN "running" ELSE outcome
            /\ isRendering' = TRUE
            /\ passes' = passes + started

\* window.renderCancelled = false   (render, line 145)
\* (a render() that leaves the flag as it finds it)
ClearedFlag_mut(cancelled) == cancelled
ClearedFlag(cancelled) == FALSE

\* A click on Render: render() up to the first await of RayTracer.render
RenderClick ==
    /\ RenderGuard(isRendering)
    \* what render() reads from the widgets: camera parameters, the denoising
    \* check box, the background type
    /\ \E params \in {[fov |-> 45, aperture |-> 0, focusDist |-> 10,
                        type |-> "perspective"]},
          dn \in BOOLEAN, bg \in {"gradient"}, slowAt \in 0..width :
         LET buf == IF data.id = imageData.id THEN data.px
                    ELSE Blank(imageData.w * imageData.h)
             r0 == [rpc |-> "start", row |-> height - 1, col |-> 0, pixelCount |-> 0,
                    overBudget |-> FALSE, px |-> buf, floatData |-> Blank(Len(buf)),
                    progressLog |-> << >>, denoiseRuns |-> 0, status |-> "rendering"]
             interval == Max(1, width \div 4)
             r1 == RowLoop(r0, height - 1, ClearedFlag(renderCancelled), width, height,
                           width * height,
                           interval, slowAt, dn)
         IN /\ renderCancelled' = ClearedFlag(renderCancelled)
            /\ camera' = updateCamera(camera, params, width, height)
            /\ world' = updateBackground(world, bg, 10)
            /\ denoising' = dn
            /\ totalPixels' = width * height
            /\ passHeight' = height
            /\ updateInterval' = interval
            /\ data' = [id |-> imageData.id, px |-> r1.px]
            /\ AfterSegment(r1, ClearedFlag(renderCancelled), 1)
    /\ UNCHANGED <<width, height, imageData, allocs, pending, hung,
                   loadsStarted, loadsDone, loadRet, loaderVars>>

\* The timer of a pending await fires: RayTracer.render runs on
RenderResume ==
    /\ rpc \in {"inRow", "rowEnd"}
    /\ \E slowAt \in 0..width :
         LET r1 == IF rpc = "inRow"
                   THEN RunRow(Activation, col + 1, renderCancelled, width, height,
                               totalPixels, updateInterval, slowAt, denoising)
                   ELSE RowLoop(Activation, row - 1, renderCancelled, width, height,
                                totalPixels, updateInterval, slowAt, denoising)
         IN /\ data' = [data EXCEPT !.px = r1.px]
            /\ AfterSegment(r1, renderCancelled, 0)
    /\ UNCHANGED <<renderCancelled, world, camera, width, height, imageData,
                   denoising, allocs, totalPixels, passHeight, updateInterval,
                   pending, hung,
                   loadsStarted, loadsDone, loadRet, loaderVars>>

renderVars == <<rpc, row, col, pixelCount, totalPixels, passHeight, updateInterval,
                overBudget,
                data, floatData, progressLog, denoiseRuns, passes, outcome>>
loadVars == <<pending, hung, loadsStarted, loadsDone, loadRet>>

\* cancelRender
CancelClick ==
    /\ renderCancelled' = TRUE
    /\ status' = "cancelling"
    /\ UNCHANGED <<isRendering, world, camera, width, height, imageData, denoising,
                   allocs, renderVars, loadVars, loaderVars>>

\* loadPreset
LoadPresetClick ==
    /\ \E preset \in {"cornell"} :
         /\ world' = RT_loadPreset(preset, width, height).world
         /\ camera' = RT_loadPreset(preset, width, height).camera
    /\ status' = "preset"
    /\ UNCHANGED <<isRendering, renderCancelled, width, height, imageData, denoising,
                   allocs, renderVars, loadVars, loaderVars>>

\* the change handlers of #enableTextures and #textureType
TextureChange ==
    /\ world' = refreshScene(width, height).world
    /\ camera' = refreshScene(width, height).camera
    /\ status' = "textures"
    /\ UNCHANGED <<isRendering, renderCancelled, width, height, imageData, denoising,
                   allocs, renderVars, loadVars, loaderVars>>

\* changeCameraPosition
CameraPositionChange ==
    /\ \E position \in {"top"} :
         IF position \in DOMAIN cameraPositions
         THEN /\ camera' = updateCamera(camera, cameraPositions[position], width, height)
              /\ status' = "camera"
         ELSE /\ camera' = camera
              /\ status' = "unknowncamera"
    /\ UNCHANGED <<isRendering, renderCancelled, world, width, height, imageData,
                   denoising, allocs, renderVars, loadVars, loaderVars>>

\* loadBlenderScene with no file chosen
LoadSceneNoFile ==
    /\ status' = "nofile"
    /\ UNCHANGED <<isRendering, renderCancelled, world, camera, width, height,
                   imageData, denoising, allocs, renderVars, loadVars, loaderVars>>

\* loadBlenderScene up to its await: the FileReader is started
LoadSceneClick ==
    /\ loadsStarted < MaxLoads
    \* the files a user may pick: text that JSON.parse rejects, the document
    \* null, a scene whose camera has a resolution with a zero side, and a
    \* scene with a camera, an aperture and a resolution
    /\ \E file \in {[parseable |-> FALSE],
                     [parseable |-> TRUE, json |-> JSNull],
                     [parseable |-> TRUE,
                      json |-> [camera |-> [resolution |-> <<0, 1>>]]],
                     [parseable |-> TRUE,
                      json |-> [camera |-> [resolution |-> <<1, 2>>,
                                            position |-> <<0, 0, 4>>,
                                            aperture |-> 5]]]} :
         pending' = Append(pending, file)
    /\ loadsStarted' = loadsStarted + 1
    /\ status' = "loading"
    /\ UNCHANGED <<isRendering, renderCancelled, world, camera, width, height,
                   imageData, denoising, allocs, renderVars, hung, loadsDone,
                   loadRet, loaderVars>>

\* reader.onload of a file JSON.parse rejects: the exception leaves the event
\* handler, resolve is never called, and loadBlenderScene never continues
FileParseFails ==
    /\ \E k \in 1..Len(pending) :
         /\ ~pending[k].parseable
         /\ pending' = Remove(pending, k)
    /\ hung' = hung + 1
    /\ UNCHANGED <<isRendering, renderCancelled, status, world, camera, width, height,
                   imageData, denoising, allocs, renderVars, loadsStarted, loadsDone,
                   loadRet, loaderVars>>

\* reader.onload of a file that parses: the rest of loadBlenderScene
FileLoaded ==
    /\ \E k \in 1..Len(pending) :
         /\ pending[k].parseable
         /\ \E out \in {RT_loadFromJSON(
                            [world |-> world, camera |-> camera, width |-> width,
                             height |-> height, imageData |-> imageData,
                             allocs |-> allocs], pending[k].json)} :
               /\ world' = out.rt.world
               /\ camera' = out.rt.camera
               /\ width' = out.rt.width
               /\ height' = out.rt.height
               /\ imageData' = out.rt.imageData
               /\ allocs' = out.rt.allocs
               /\ loadRet' = IF out.ret THEN "true" ELSE "false"
         /\ pending' = Remove(pending, k)
    /\ loadsDone' = loadsDone + 1
    /\ status' = "loaded"
    /\ UNCHANGED <<isRendering, renderCancelled, denoising, renderVars, hung,
                   loadsStarted, loaderVars>>

\* reader.onerror: the promise is rejected and the catch block reports it
FileReadError ==
    /\ \E k \in 1..Len(pending) : pending' = Remove(pending, k)
    /\ status' = "loaderror"
    /\ UNCHANGED <<isRendering, renderCancelled, world, camera, width, height,
                   imageData, denoising, allocs, renderVars, hung, loadsStarted,
                   loadsDone, loadRet, loaderVars>>

Next ==
    \/ RenderClick
    \/ RenderResume
    \/ CancelClick
    \/ LoadPresetClick
    \/ TextureChange
    \/ CameraPositionChange
    \/ LoadSceneNoFile
    \/ LoadSceneClick
    \/ FileParseFails
    \/ FileLoaded
    \/ FileReadError

Spec == Init /\ [][Next]_vars

\* The timers of the awaits of RayTracer.render (setTimeout, lines 241 and
\* 261) fire: a suspended pass is resumed sooner or later
SpecLive == Spec /\ WF_vars(RenderResume)

----------------------------------------------------------------------------
(* SceneLoader.loadFromJSON on its own *)

SeqsUpTo(S, n) == UNION {[1..k -> S] : k \in 0..n}

LoaderInit ==
    LET ObjectDescs ==
            {[type |-> "sphere", center |-> <<1, 2, 3>>, radius |-> 2,
              material |-> [type |-> "Metal", color |-> <<8, 8, 9>>, roughness |-> 1]],
             [type |-> "Sphere"],
             [type |-> "sphere", center |-> <<1, 2>>, radius |-> 0],
             [type |-> "plane", normal |-> <<0, 2, 0>>],
             [type |-> "box", max |-> <<1, 1, 1>>],
             [type |-> "triangle", v1 |-> <<1, 0, 0>>,
              material |-> [type |-> "plastic", color |-> <<1, 1, 1>>]],
             [type |-> "MESH", vertices |-> <<<<0, 0, 0>>, <<1, 0, 0>>, <<0, 1, 0>>>>,
              indices |-> <<0, 1, 2, 1>>],
             [type |-> "mesh", vertices |-> <<<<0, 0, 0>>, <<1, 0, 0>>, <<0, 1, 0>>>>],
             [type |-> "torus", center |-> <<1, 1, 1>>],
             [name |-> "untyped", center |-> <<1, 1, 1>>]}

        LightDescs ==
            {[type |-> "point", position |-> <<0, 4, 0>>, color |-> <<10, 9, 8>>,
              intensity |-> 100],
             [type |-> "POINT"],
             [type |-> "directional", direction |-> <<0, -2, 0>>],
             [type |-> "spot", position |-> <<1, 1, 1>>],
             [intensity |-> 5]}

        CameraDescs ==
            {[name |-> "Camera"],
             [position |-> <<3, 4, 0>>, lookAt |-> <<0, 0, 0>>, up |-> <<0, 0, 1>>, fov |-> 40,
              aspect |-> 2, aperture |-> 5, focusDist |-> 4, type |-> "orthographic"],
             [position |-> <<0, 0, 0>>],
             [lookAt |-> <<0, 0, -5>>, fov |-> 0, focusDist |-> 0],
             [position |-> <<0, 0, 10>>, resolution |-> <<4, 2>>]}

        BackgroundDescs ==
            {[type |-> "gradient"],
             [type |-> "solid", color |-> <<2, 3, 4>>, intensity |-> 20],
             [type |-> "solid"],
             [type |-> "hdri"],
             [type |-> "procedural_sky"],
             [type |-> "space", intensity |-> 5],
             [intensity |-> 7]}

        LoaderDocs ==
            {[objects |-> os] : os \in SeqsUpTo(ObjectDescs, MaxObjects)}
            \cup {[lights |-> ls] : ls \in SeqsUpTo(LightDescs, MaxObjects)}
            \cup {[camera |-> c] : c \in CameraDescs}
            \cup {[background |-> b] : b \in BackgroundDescs}
            \cup {[objects |-> <<o>>, lights |-> <<l>>, camera |-> c, background |-> b] :
                    o \in {[type |-> "torus", center |-> <<1, 1, 1>>], [type |-> "Sphere"]},
                    l \in {[type |-> "spot", position |-> <<1, 1, 1>>], [type |-> "POINT"]},
                    c \in CameraDescs, b \in BackgroundDescs}
            \cup {JSNull, [objects |-> <<[type |-> "Sphere"], JSNull>>]}
    IN /\ UIInit
       /\ doc \in LoaderDocs
       /\ result = NoResult
       /\ lpc = "input"

\* one call of SceneLoader.loadFromJSON(doc, width, height)
LoaderLoad ==
    /\ lpc = "input"
    /\ lpc' = "loaded"
    /\ result' = IF SceneLoaderThrows(doc) THEN [threw |-> TRUE]
                 ELSE [threw |-> FALSE,
                       value |-> SceneLoader_loadFromJSON(doc, width, height)]
    /\ UNCHANGED <<doc, uiVars>>

SpecLoader == LoaderInit /\ [][LoaderLoad]_vars

----------------------------------------------------------------------------
(* Numbers of the intersection code.  A JavaScript number is kept as the   *)
(* reduced fraction <<n, d>> with d >= 0: <<1, 0>> is Infinity, <<-1, 0>>  *)
(* is -Infinity and <<0, 0>> is NaN.  Zero is <<0, 1>> (one zero, no sign). *)
(* A value the code keeps in a const is the argument of a local operator,  *)
(* so each method reads as a chain of steps, last step first.              *)

\* a / b for integers a and b
Q(a, b) ==
    LET Sign(x) == IF x > 0 THEN 1 ELSE IF x < 0 THEN -1 ELSE 0
        Reduced(g) ==
            IF b > 0 THEN <<a \div g, b \div g>> ELSE <<(-a) \div g, (-b) \div g>>
    IN IF b = 0 THEN <<Sign(a), 0>> ELSE Reduced(GCD(a, b))
Infinity == <<1, 0>>
QInt(k) == <<k, 1>>
QNeg(a) == <<-a[1], a[2]>>
QAbs(a) == <<Abs(a[1]), a[2]>>
QAdd(a, b) ==
    IF a[2] = 0 /\ b[2] = 0 THEN (IF a = b THEN a ELSE NaN)
    ELSE Q(a[1] * b[2] + b[1] * a[2], a[2] * b[2])
QSub(a, b) == QAdd(a, QNeg(b))
QMul(a, b) == Q(a[1] * b[1], a[2] * b[2])
QDiv(a, b) == QMul(a, Q(b[2], b[1]))
\* a < b; every comparison with NaN is false
QLt(a, b) ==
    /\ a # NaN
    /\ b # NaN
    /\ IF a[2] = 0 /\ b[2] = 0 THEN a[1] < b[1] ELSE a[1] * b[2] < b[1] * a[2]
QGt(a, b) == QLt(b, a)
\* Math.max, Math.min: NaN when an argument is NaN
QMax(a, b) == IF a = NaN \/ b = NaN THEN NaN ELSE IF QLt(a, b) THEN b ELSE a
QMin(a, b) == IF a = NaN \/ b = NaN THEN NaN ELSE IF QLt(b, a) THEN b ELSE a
\* Math.sqrt: NaN below zero, exact on squares of fractions
QSqrt(a) ==
    IF a[1] < 0 THEN NaN ELSE IF a[2] = 0 THEN a ELSE Q(Sqrt(a[1]), Sqrt(a[2]))

\* Vec3 over these numbers
QV(v) == <<QInt(v[1]), QInt(v[2]), QInt(v[3])>>
qadd(a, b) == <<QAdd(a[1], b[1]), QAdd(a[2], b[2]), QAdd(a[3], b[3])>>
qsub(a, b) == <<QSub(a[1], b[1]), QSub(a[2], b[2]), QSub(a[3], b[3])>>
qmul(a, s) == <<QMul(a[1], s), QMul(a[2], s), QMul(a[3], s)>>
qdiv(a, s) == <<QDiv(a[1], s), QDiv(a[2], s), QDiv(a[3], s)>>
qdot(a, b) == QAdd(QAdd(QMul(a[1], b[1]), QMul(a[2], b[2])), QMul(a[3], b[3]))
qcross(a, b) ==
    <<QSub(QMul(a[2], b[3]), QMul(a[3], b[2])),
      QSub(QMul(a[3], b[1]), QMul(a[1], b[3])),
      QSub(QMul(a[1], b[2]), QMul(a[2], b[1]))>>

\* Ray: origin and direction are vectors of such numbers
Ray(origin, direction) == [origin |-> origin, direction |-> direction]
at(ray, t) == qadd(ray.origin, qmul(ray.direction, t))

\* HitRecord.setFaceNormal applied to a record under construction
setFaceNormal(rec, ray, outwardNormal) ==
    LET Facing(frontFace) ==
            [rec EXCEPT !.frontFace = frontFace,
                        !.normal = IF frontFace THEN outwardNormal
                                   ELSE qmul(outwardNormal, QInt(-1))]
    IN Facing(QLt(qdot(ray.direction, outwardNormal), QInt(0)))
\* new HitRecord() with t, point and material assigned
HitRecord(t, point, material) ==
    [t |-> t, point |-> point, normal |-> QV(<<0, 0, 0>>), frontFace |-> TRUE,
     material |-> material]
\* "return null" of a hit method or of a scatter method
NoHit == [none |-> TRUE]

----------------------------------------------------------------------------
(* The hit methods (js/geometry.js) and World.hit (js/world.js).  The u, v *)
(* texture coordinates of a HitRecord are kept for triangles only.         *)

\* t < tMin || t > tMax   (Plane.hit 61, Box.hit 112, Triangle.hit 175), and
\* root < tMin || tMax < root   (Sphere.hit, lines 26 and 28)
OutOfRange(t, tMin, tMax) == QLt(t, tMin) \/ QGt(t, tMax)

\* Sphere.hit; each step takes the consts of the lines before it
Sphere_hit(s, ray, tMin, tMax) ==
    LET SphereAt(root, point) ==
            setFaceNormal(HitRecord(root, point, s.material), ray,
                          qdiv(qsub(point, QV(s.center)), QInt(s.radius)))
        SphereRecord(root) == SphereAt(root, at(ray, root))
        SphereRoots(root1, root2) ==
            IF ~OutOfRange(root1, tMin, tMax) THEN SphereRecord(root1)
            ELSE IF OutOfRange(root2, tMin, tMax) THEN NoHit
            ELSE SphereRecord(root2)
        SphereSqrt(a, halfB, sqrtd) ==
            SphereRoots(QDiv(QSub(QNeg(halfB), sqrtd), a),
                        QDiv(QAdd(QNeg(halfB), sqrtd), a))
        SphereDisc(a, halfB, discriminant) ==
            IF QLt(discriminant, QInt(0)) THEN NoHit
            ELSE SphereSqrt(a, halfB, QSqrt(discriminant))
        SphereQuadratic(a, halfB, c) ==
            SphereDisc(a, halfB, QSub(QMul(halfB, halfB), QMul(a, c)))
        SphereOc(oc) ==
            SphereQuadratic(qdot(ray.direction, ray.direction), qdot(oc, ray.direction),
                            QSub(qdot(oc, oc), QInt(s.radius * s.radius)))
    IN SphereOc(qsub(ray.origin, QV(s.center)))

\* Plane.hit
Plane_hit(p, ray, tMin, tMax) ==
    LET PlaneAt(t) ==
            IF OutOfRange(t, tMin, tMax) THEN NoHit
            ELSE setFaceNormal(HitRecord(t, at(ray, t), p.material), ray, QV(p.normal))
        PlaneDenom(denom) ==
            IF QLt(QAbs(denom), Q(1, 1000000)) THEN NoHit
            ELSE PlaneAt(QDiv(qdot(qsub(QV(p.point), ray.origin), QV(p.normal)),
                              denom))
    IN PlaneDenom(qdot(QV(p.normal), ray.direction))

\* Box.hit; x, y, z are the slabs <<tMin, tMax>> of the three axes
Box_hit(b, ray, tMin, tMax) ==
    LET \* the two quotients of a slab, swapped when the first is larger
        Swapped(t0, t1) == IF QGt(t0, t1) THEN <<t1, t0>> ELSE <<t0, t1>>
        Slab(i) ==
            Swapped(QDiv(QSub(QInt(b.min[i]), ray.origin[i]), ray.direction[i]),
                    QDiv(QSub(QInt(b.max[i]), ray.origin[i]), ray.direction[i]))
        \* Math.abs(a - k) < eps   (lines 120-125)
        Near(a, k) == QLt(QAbs(QSub(a, QInt(k))), Q(1, 1000000))
        \* the face picked for the normal (lines 121-126)
        BoxNormal(p) ==
            IF Near(p[1], b.min[1]) THEN <<-1, 0, 0>>
            ELSE IF Near(p[1], b.max[1]) THEN <<1, 0, 0>>
            ELSE IF Near(p[2], b.min[2]) THEN <<0, -1, 0>>
            ELSE IF Near(p[2], b.max[2]) THEN <<0, 1, 0>>
            ELSE IF Near(p[3], b.min[3]) THEN <<0, 0, -1>>
            ELSE <<0, 0, 1>>
        BoxAt(t, p) == setFaceNormal(HitRecord(t, p, b.material), ray, QV(BoxNormal(p)))
        BoxFound(t) == IF OutOfRange(t, tMin, tMax) THEN NoHit ELSE BoxAt(t, at(ray, t))
        \* t = tMinBox > tMin ? tMinBox : tMaxBox   (line 111)
        BoxT(tMinBox, tMaxBox) == IF QGt(tMinBox, tMin) THEN tMinBox ELSE tMaxBox
        BoxZ(tMinBox, tMaxBox, z) ==
            IF QGt(tMinBox, z[2]) \/ QGt(z[1], tMaxBox) THEN NoHit
            ELSE BoxFound(BoxT(QMax(tMinBox, z[1]), QMin(tMaxBox, z[2])))
        BoxXY(x, y) ==
            IF QGt(x[1], y[2]) \/ QGt(y[1], x[2]) THEN NoHit
            ELSE BoxZ(QMax(x[1], y[1]), QMin(x[2], y[2]), Slab(3))
    IN BoxXY(Slab(1), Slab(2))

\* this.normal of a Triangle (constructor, lines 143-145)
TriangleNormal(tr) ==
    LET cross(a, b) ==
            <<a[2] * b[3] - a[3] * b[2], a[3] * b[1] - a[1] * b[3],
              a[1] * b[2] - a[2] * b[1]>>
    IN normalize(cross(sub(tr.v1, tr.v0), sub(tr.v2, tr.v0)))
\* v < 0 || u + v > 1   (Triangle.hit, line 170)
\* (a test that forgets the third edge)
OutsideTriangle_mut(u, v) == QLt(v, QInt(0))
OutsideTriangle(u, v) == QLt(v, QInt(0)) \/ QGt(QAdd(u, v), QInt(1))
\* Triangle.hit; each step takes the consts of the lines before it
Triangle_hit(tr, ray, tMin, tMax) ==
    LET WithUV(rec, u, v) ==
            [t |-> rec.t, point |-> rec.point, normal |-> rec.normal,
             frontFace |-> rec.frontFace, material |-> rec.material, u |-> u, v |-> v]
        TriangleRecord(t, u, v) ==
            WithUV(setFaceNormal(HitRecord(t, at(ray, t), tr.material), ray,
                                 QV(TriangleNormal(tr))), u, v)
        TriangleT(u, v, t) ==
            IF OutOfRange(t, tMin, tMax) THEN NoHit ELSE TriangleRecord(t, u, v)
        TriangleV(edge2, f, u, q, v) ==
            IF OutsideTriangle(u, v) THEN NoHit
            ELSE TriangleT(u, v, QMul(f, qdot(edge2, q)))
        TriangleQ(edge2, f, u, q) ==
            TriangleV(edge2, f, u, q, QMul(f, qdot(ray.direction, q)))
        TriangleU(edge1, edge2, f, s, u) ==
            IF QLt(u, QInt(0)) \/ QGt(u, QInt(1)) THEN NoHit
            ELSE TriangleQ(edge2, f, u, qcross(s, edge1))
        TriangleS(edge1, edge2, h, f, s) ==
            TriangleU(edge1, edge2, f, s, QMul(f, qdot(s, h)))
        TriangleA(edge1, edge2, h, a) ==
            IF QLt(QAbs(a), Q(1, 10000)) THEN NoHit
            ELSE TriangleS(edge1, edge2, h, QDiv(QInt(1), a),
                           qsub(ray.origin, QV(tr.v0)))
        TriangleH(edge1, edge2, h) == TriangleA(edge1, edge2, h, qdot(edge1, h))
        TriangleEdges(edge1, edge2) ==
            TriangleH(edge1, edge2, qcross(ray.direction, edge2))
    IN TriangleEdges(QV(sub(tr.v1, tr.v0)), QV(sub(tr.v2, tr.v0)))

\* (a scan that hands every triangle the caller's tMax and keeps the last
\* triangle hit)
TriangleMesh_hit_mut(m, ray, tMin, tMax) ==
    LET RECURSIVE LastHitFrom(_, _)
        LastHitFrom(k, closest) ==
            LET LastStep(hit) ==
                    IF IsNone(hit) THEN LastHitFrom(k + 1, closest)
                    ELSE LastHitFrom(k + 1, hit)
            IN IF k > Len(m.triangles) THEN closest
               ELSE LastStep(Triangle_hit(m.triangles[k], ray, tMin, tMax))
    IN LastHitFrom(1, NoHit)
\* TriangleMesh.hit; MeshHitFrom is the loop over this.triangles from
\* position k (1-based)
TriangleMesh_hit(m, ray, tMin, tMax) ==
    LET RECURSIVE MeshHitFrom(_, _, _)
        MeshHitFrom(k, closestT, closest) ==
            LET MeshStep(hit) ==
                    IF IsNone(hit) THEN MeshHitFrom(k + 1, closestT, closest)
                    ELSE MeshHitFrom(k + 1, hit.t, hit)
            IN IF k > Len(m.triangles) THEN closest
               ELSE MeshStep(Triangle_hit(m.triangles[k], ray, tMin, closestT))
    IN MeshHitFrom(1, tMax, NoHit)

\* object.hit(ray, tMin, tMax): dispatch on the object's class
Object_hit(o, ray, tMin, tMax) ==
    CASE o.type = "Sphere" -> Sphere_hit(o, ray, tMin, tMax)
      [] o.type = "Plane" -> Plane_hit(o, ray, tMin, tMax)
      [] o.type = "Box" -> Box_hit(o, ray, tMin, tMax)
      [] o.type = "Triangle" -> Triangle_hit(o, ray, tMin, tMax)
      [] o.type = "TriangleMesh" -> TriangleMesh_hit(o, ray, tMin, tMax)

\* World.hit; WorldHitFrom is the loop over this.objects from position k
\* (1-based)
World_hit(w, ray, tMin, tMax) ==
    LET RECURSIVE WorldHitFrom(_, _, _)
        WorldHitFrom(k, closestT, closestHit) ==
            LET \* hit && hit.t < closestT   (line 26)
                Closer(hit) == ~IsNone(hit) /\ QLt(hit.t, closestT)
                WorldStep(hit) ==
                    IF Closer(hit) THEN WorldHitFrom(k + 1, hit.t, hit)
                    ELSE WorldHitFrom(k + 1, closestT, closestHit)
            IN IF k > Len(w.objects) THEN closestHit
               ELSE WorldStep(Object_hit(w.objects[k], ray, tMin, closestT))
    IN WorldHitFrom(1, tMax, NoHit)

----------------------------------------------------------------------------
(* world.background(ray) (js/world.js).  What the call returns is          *)
(*   [kind |-> "color", value |-> v]      a colour, v a vector of numbers   *)
(*   [kind |-> "sky", value |-> ...]      a colour of proceduralSky or of   *)
(*                                        the hdri closure, left uncomputed *)
(*   [kind |-> "function", value |-> f]   a closure f instead of a colour   *)

\* a colour or a factor counted in tenths, as a number
Tenth(x) == Q(x, 10)
Tenths(v) == <<Tenth(v[1]), Tenth(v[2]), Tenth(v[3])>>
\* Vec3.normalize on vectors of numbers
qnormalize(v) ==
    LET Scaled(l) == IF QGt(l, QInt(0)) THEN qdiv(v, l) ELSE QV(<<0, 0, 0>>)
    IN Scaled(QSqrt(qdot(v, v)))

skyGradient(w, ray) ==
    LET white == QV(<<1, 1, 1>>)
        blue == <<Q(1, 2), Q(7, 10), QInt(1)>>
        Blend(t) ==
            qmul(qadd(qmul(white, QSub(QInt(1), t)), qmul(blue, t)),
                 Tenth(w.skyIntensity))
    IN Blend(QMul(Q(1, 2), QAdd(qnormalize(ray.direction)[2], QInt(1))))
\* (a background lit by the light list)
World_background_mut(w, ray) ==
    [kind |-> "color", value |-> QV(<<Len(w.lights), Len(w.lights), Len(w.lights)>>)]
World_background(w, ray) ==
    CASE w.background.fn = "skyGradient" ->
             [kind |-> "color", value |-> skyGradient(w, ray)]
      [] w.background.fn = "proceduralSky" ->
             [kind |-> "sky",
              value |-> [fn |-> "proceduralSky", direction |-> ray.direction,
                         skyIntensity |-> w.skyIntensity]]
      [] w.background.fn = "solidBackground()" ->
             \* the closure that solidBackground(color) returns, called
             [kind |-> "color",
              value |-> qmul(Tenths(w.background.color), Tenth(w.skyIntensity))]
      [] w.background.fn = "hdriBackground()" ->
             [kind |-> "sky",
              value |-> [fn |-> "hdriBackground()", direction |-> ray.direction,
                         skyIntensity |-> w.skyIntensity]]
      \* solidBackground.bind(world, color)(ray) is solidBackground(color, ray)
      [] w.background.fn = "solidBackground.bind" ->
             [kind |-> "function",
              value |-> [fn |-> "solidBackground()", color |-> w.background.color]]
      \* hdriBackground.bind(world)(ray) is hdriBackground(ray)
      [] w.background.fn = "hdriBackground.bind" ->
             [kind |-> "function", value |-> [fn |-> "hdriBackground()"]]

----------------------------------------------------------------------------
(* Materials (js/materials.js) and RayTracer.rayColor (js/ray-tracer.js).  *)
(* A draw is what one scatter call takes from the random source:           *)
(* p is the point Vec3.randomInUnitSphere() returns, r the value of        *)
(* Math.random().                                                          *)

\* material.emitted(u, v, p)
\* (an Emissive that emits what the base Material emits)
Emitted_mut(material) == QV(<<0, 0, 0>>)
Emitted(material) ==
    IF material.type = "Emissive"
    THEN qmul(Tenths(material.color), Tenth(material.intensity))
    ELSE QV(<<0, 0, 0>>)

\* Vec3.reflect
qreflect(v, n) == qsub(v, qmul(n, QMul(QInt(2), qdot(v, n))))

Lambertian_scatter(m, ray, rec, draw) ==
    [scattered |-> Ray(rec.point, qadd(rec.normal, qnormalize(draw.p))),
     attenuation |-> Tenths(m.albedo)]
Metal_scatter(m, ray, rec, draw) ==
    LET MetalReturn(scattered) ==
            IF QGt(qdot(scattered.direction, rec.normal), QInt(0))
            THEN [scattered |-> scattered, attenuation |-> Tenths(m.albedo)]
            ELSE NoHit
    IN MetalReturn(Ray(rec.point,
                       qadd(qreflect(qnormalize(ray.direction), rec.normal),
                            qmul(draw.p, Tenth(m.roughness)))))
\* Dielectric.refract
refract(uv, n, etaiOverEtat) ==
    LET RefractSum(rOutPerpendicular) ==
            qadd(rOutPerpendicular,
                 qmul(n, QNeg(QSqrt(QAbs(QSub(QInt(1), qdot(rOutPerpendicular,
                                                            rOutPerpendicular)))))))
        RefractCos(cosTheta) ==
            RefractSum(qmul(qadd(uv, qmul(n, cosTheta)), etaiOverEtat))
    IN RefractCos(QMin(qdot(qmul(uv, QInt(-1)), n), QInt(1)))
\* Dielectric.reflectance
reflectance(cosine, refIdx) ==
    LET Pow5(c) == QMul(QMul(QMul(c, c), QMul(c, c)), c)
        Schlick(r0) == QAdd(r0, QMul(QSub(QInt(1), r0), Pow5(QSub(QInt(1), cosine))))
        Squared(r0) == Schlick(QMul(r0, r0))
    IN Squared(QDiv(QSub(QInt(1), refIdx), QAdd(QInt(1), refIdx)))
Dielectric_scatter(m, ray, rec, draw) ==
    LET DielectricDirection(refractionRatio, unitDirection, cosTheta, sinTheta) ==
            IF \/ QGt(QMul(refractionRatio, sinTheta), QInt(1))
               \/ QGt(reflectance(cosTheta, refractionRatio), draw.r)
            THEN qreflect(unitDirection, rec.normal)
            ELSE refract(unitDirection, rec.normal, refractionRatio)
        DielectricCos(refractionRatio, unitDirection, cosTheta) ==
            DielectricDirection(refractionRatio, unitDirection, cosTheta,
                                QSqrt(QSub(QInt(1), QMul(cosTheta, cosTheta))))
        DielectricUnit(refractionRatio, unitDirection) ==
            DielectricCos(refractionRatio, unitDirection,
                          QMin(qdot(qmul(unitDirection, QInt(-1)), rec.normal), QInt(1)))
    IN [scattered |->
            Ray(rec.point,
                DielectricUnit(IF rec.frontFace
                               THEN QDiv(QInt(1), Tenth(m.refractionIndex))
                               ELSE Tenth(m.refractionIndex),
                               qnormalize(ray.direction))),
        attenuation |-> QV(<<1, 1, 1>>)]
\* material.scatter(ray, rec)
scatter(m, ray, rec, draw) ==
    CASE m.type = "Lambertian" -> Lambertian_scatter(m, ray, rec, draw)
      [] m.type = "Metal" -> Metal_scatter(m, ray, rec, draw)
      [] m.type = "Dielectric" -> Dielectric_scatter(m, ray, rec, draw)
      [] m.type = "Emissive" -> NoHit

\* ---- material.scatter on its own: one ray, one hit record, one draw ----

ScatterInit ==
    LET ScatterMaterials ==
            {Dielectric(10), Dielectric(15), Metal(Vec3(9, 9, 9), 0),
             Lambertian(Vec3(5, 5, 5)), Emissive(Vec3(10, 10, 10), 20)}
        \* incident directions whose length is a whole number, down to the
        \* surface y = 0 and up to it from below
        ScatterDirections ==
            {<<3, -4, 0>>, <<4, -3, 0>>, <<0, -1, 0>>, <<0, -5, 0>>, <<0, 3, 4>>,
             <<12, -5, 0>>}
        ScatterDraws ==
            {[p |-> <<QInt(0), QInt(0), Q(1, 2)>>, r |-> r] :
                 r \in {QInt(0), Q(1, 1000), Q(1, 2), Q(999, 1000)}}
        ScatterInput(material, ray, outwardNormal, draw) ==
            [material |-> material, ray |-> ray, draw |-> draw,
             rec |-> setFaceNormal(HitRecord(QInt(1), at(ray, QInt(1)), material),
                                   ray, outwardNormal)]
    IN /\ UIInit
       /\ doc \in {ScatterInput(m, Ray(QV(<<0, 0, 0>>), QV(d)), QV(n), draw) :
                       m \in ScatterMaterials, d \in ScatterDirections,
                       n \in {<<0, 1, 0>>, <<0, -1, 0>>}, draw \in ScatterDraws}
       /\ result = NoResult
       /\ lpc = "input"

\* one call of rec.material.scatter(ray, rec)
ScatterCall ==
    /\ lpc = "input"
    /\ lpc' = "scattered"
    /\ result' = scatter(doc.material, doc.ray, doc.rec, doc.draw)
    /\ UNCHANGED <<doc, uiVars>>

SpecScatter == ScatterInit /\ [][ScatterCall]_vars

----------------------------------------------------------------------------
(* PerlinNoise (js/noise.js).  The table this.p is a sequence, position    *)
(* k + 1 holding this.p[k]; a read outside the table gives undefined and   *)
(* arithmetic on undefined gives NaN, both written Undefined here.  A draw *)
(* is a value n/d of Math.random(), 0 <= n < d.                            *)

TableSize == 256
DrawPeriod == 2
Undefined == -1

\* new PerlinNoise(): the identity table, the shuffle of lines 11-14 with
\* the draw draws[i] for j, and the duplication of line 17.  Shuffle(p, hi,
\* lo) is the loop for i = hi down to lo, run as its upper half followed by
\* its lower half on the table the upper half produced (a swap keeps the
\* table's length, so the test of Lower always holds).
\* (a constructor that does not duplicate the table)
PerlinNoise_mut(draws) ==
    LET RECURSIVE ShuffleOnly(_, _, _)
        ShuffleOnly(p, hi, lo) ==
            LET Swap(i, j) == [p EXCEPT ![i + 1] = p[j + 1], ![j + 1] = p[i + 1]]
                Lower(q, mid) == IF Len(q) = TableSize THEN ShuffleOnly(q, mid, lo) ELSE q
                Halves(mid) == Lower(ShuffleOnly(p, hi, mid + 1), mid)
            IN IF hi = lo THEN Swap(hi, (draws[hi][1] * (hi + 1)) \div draws[hi][2])
               ELSE Halves((hi + lo) \div 2)
    IN ShuffleOnly([k \in 1..TableSize |-> k - 1], TableSize - 1, 0)
PerlinNoise(draws) ==
    LET RECURSIVE Shuffle(_, _, _)
        Shuffle(p, hi, lo) ==
            LET Swap(i, j) == [p EXCEPT ![i + 1] = p[j + 1], ![j + 1] = p[i + 1]]
                Lower(q, mid) == IF Len(q) = TableSize THEN Shuffle(q, mid, lo) ELSE q
                Halves(mid) == Lower(Shuffle(p, hi, mid + 1), mid)
            IN IF hi = lo THEN Swap(hi, (draws[hi][1] * (hi + 1)) \div draws[hi][2])
               ELSE Halves((hi + lo) \div 2)
        Duplicate(p) == p \o p
    IN Duplicate(Shuffle([k \in 1..TableSize |-> k - 1], TableSize - 1, 0))

\* PerlinNoise.noise(point): the value returned and the table indices read,
\* in the order of the source text
noise(p, point) ==
    LET \* Math.floor(c) & 255: ToInt32 of NaN and of an infinity is 0
        Cell(c) == IF c[2] = 0 THEN 0 ELSE (c[1] \div c[2]) % TableSize
        \* c - Math.floor(c)
        Frac(c) == IF c[2] = 0 THEN NaN ELSE QSub(c, QInt(c[1] \div c[2]))
        Read(k) == IF k >= 0 /\ k < Len(p) THEN p[k + 1] ELSE Undefined
        Plus(a, b) == IF a = Undefined THEN Undefined ELSE a + b
        fade(t) ==
            QMul(QMul(QMul(t, t), t),
                 QAdd(QMul(t, QSub(QMul(t, QInt(6)), QInt(15))), QInt(10)))
        lerp(t, a, b) == QAdd(a, QMul(t, QSub(b, a)))
        \* hash & 15: undefined & 15 is 0
        Low(hash) == IF hash = Undefined THEN 0 ELSE hash % 16
        GradSum(h, u, v) ==
            QAdd(IF h % 2 = 0 THEN u ELSE QNeg(u),
                 IF (h \div 2) % 2 = 0 THEN v ELSE QNeg(v))
        GradLow(h, x, y, z) ==
            GradSum(h, IF h < 8 THEN x ELSE y,
                    IF h < 4 THEN y ELSE IF h = 12 \/ h = 14 THEN x ELSE z)
        grad(hash, x, y, z) == GradLow(Low(hash), x, y, z)
        Value(u, v, w, fx, fy, fz, AA, AB, BA, BB) ==
            lerp(w,
                 lerp(v,
                      lerp(u, grad(Read(AA), fx, fy, fz),
                           grad(Read(BA), QSub(fx, QInt(1)), fy, fz)),
                      lerp(u, grad(Read(AB), fx, QSub(fy, QInt(1)), fz),
                           grad(Read(BB), QSub(fx, QInt(1)), QSub(fy, QInt(1)), fz))),
                 lerp(v,
                      lerp(u, grad(Read(Plus(AA, 1)), fx, fy, QSub(fz, QInt(1))),
                           grad(Read(Plus(BA, 1)), QSub(fx, QInt(1)), fy,
                                QSub(fz, QInt(1)))),
                      lerp(u, grad(Read(Plus(AB, 1)), fx, QSub(fy, QInt(1)),
                                   QSub(fz, QInt(1))),
                           grad(Read(Plus(BB, 1)), QSub(fx, QInt(1)),
                                QSub(fy, QInt(1)), QSub(fz, QInt(1))))))
        Corners(X, fx, fy, fz, A, B, AA, AB, BA, BB) ==
            [value |-> Value(fade(fx), fade(fy), fade(fz), fx, fy, fz, AA, AB, BA, BB),
             reads |-> <<X, A, Plus(A, 1), X + 1, B, Plus(B, 1), AA, BA, AB, BB,
                         Plus(AA, 1), Plus(BA, 1), Plus(AB, 1), Plus(BB, 1)>>]
        Hashes(X, Z, fx, fy, fz, A, B) ==
            Corners(X, fx, fy, fz, A, B, Plus(Read(A), Z), Plus(Read(Plus(A, 1)), Z),
                    Plus(Read(B), Z), Plus(Read(Plus(B, 1)), Z))
        Cells(X, Y, Z) ==
            Hashes(X, Z, Frac(point[1]), Frac(point[2]), Frac(point[3]),
                   Plus(Read(X), Y), Plus(Read(X + 1), Y))
    IN Cells(Cell(point[1]), Cell(point[2]), Cell(point[3]))

NoiseInit ==
    LET \* the draws of a shuffle: DrawPeriod values of Math.random(), repeated
        DrawValues == {<<0, 1>>, <<1, 2>>, <<255, 256>>}
        DrawPatterns ==
            {[i \in 0..(TableSize - 1) |-> pat[(i % DrawPeriod) + 1]] :
                 pat \in [1..DrawPeriod -> DrawValues]}
        Coordinates == {QInt(-1), QInt(0), Q(1, 2), QInt(255), Q(511, 2), NaN}
    IN /\ UIInit
       /\ doc \in {[draws |-> d, point |-> <<x, y, z>>] :
                       d \in DrawPatterns,
                       x \in Coordinates, y \in Coordinates, z \in Coordinates}
       /\ result = NoResult
       /\ lpc = "input"

\* new PerlinNoise() followed by one call of its noise(point); NoiseTable
\* hands the table built to the call
NoiseCall ==
    LET NoiseTable(p) == [p |-> p, out |-> noise(p, doc.point)]
    IN /\ lpc = "input"
       /\ lpc' = "noise"
       /\ result' = NoiseTable(PerlinNoise(doc.draws))
       /\ UNCHANGED <<doc, uiVars>>

SpecNoise == NoiseInit /\ [][NoiseCall]_vars

\* depth <= 0   (rayColor, line 103)
\* (a recursion that stops one level late)
DepthExhausted_mut(depth) == depth < 0
DepthExhausted(depth) == depth <= 0
\* the componentwise product of lines 113-117
\* (a product that forgets the scattered colour)
Attenuate_mut(attenuation, scattered) == attenuation
Attenuate(attenuation, scattered) ==
    <<QMul(attenuation[1], scattered[1]), QMul(attenuation[2], scattered[2]),
      QMul(attenuation[3], scattered[3])>>
\* RayTracer.rayColor(ray, depth) with the draws its scatter calls take;
\* queries counts the calls of World.hit
RECURSIVE rayColor(_, _, _, _)
rayColor(w, ray, depth, draws) ==
    LET \* emitted.add(attenuation * scattered) for what the recursive call
        \* returned: the components of a closure are undefined, the sum is NaN
        Combine(emitted, attenuation, scattered) ==
            CASE scattered.kind = "color" ->
                     [kind |-> "color",
                      value |-> qadd(emitted, Attenuate(attenuation, scattered.value))]
              [] scattered.kind = "sky" ->
                     [kind |-> "sky",
                      value |-> [emitted |-> emitted, attenuation |-> attenuation,
                                 scattered |-> scattered.value]]
              [] scattered.kind = "function" ->
                     [kind |-> "color", value |-> <<NaN, NaN, NaN>>]
        rayColorSum(hit, scatterResult, scattered) ==
            [queries |-> 1 + scattered.queries]
                @@ Combine(Emitted(hit.material), scatterResult.attenuation, scattered)
        rayColorScatter(hit, scatterResult) ==
            IF IsNone(scatterResult)
            THEN [kind |-> "color", value |-> Emitted(hit.material), queries |-> 1]
            ELSE rayColorSum(hit, scatterResult,
                             rayColor(w, scatterResult.scattered, depth - 1,
                                      Tail(draws)))
        rayColorHit(hit) ==
            IF IsNone(hit) THEN [queries |-> 1] @@ World_background(w, ray)
            ELSE rayColorScatter(hit, scatter(hit.material, ray, hit, Head(draws)))
    IN IF DepthExhausted(depth)
       THEN [kind |-> "color", value |-> QV(<<0, 0, 0>>), queries |-> 0]
       ELSE rayColorHit(World_hit(w, ray, Q(1, 1000), Infinity))

\* this.maxBounces = params.maxBounces || 5, handed to rayColor by render
DefaultMaxBounces == 5
updateRenderSettings(maxBounces) == OrNum(maxBounces, DefaultMaxBounces)

----------------------------------------------------------------------------
(* The hit methods exercised on their own: doc is a query               *)
(* [world, ray, tMin, tMax], result what World.hit and each object's hit  *)
(* returned for it.                                                        *)

Grey == Lambertian(Vec3(5, 5, 5))
MaxWorldObjects == 2
\* Math.sqrt is exact in the model: the discriminant of every sphere of a
\* query is negative or the square of a fraction (ExactQuery)
HitInit ==
    LET Lamp == Emissive(Vec3(10, 10, 10), 20)
        HitObjects ==
            {Box(<<0, 0, 0>>, <<2, 2, 2>>, Grey),
             Sphere(<<1, 1, 5>>, 1, Lamp),
             Plane(<<0, 0, 8>>, <<0, 0, 1>>, Grey),
             Triangle(<<0, 0, 4>>, <<4, 0, 4>>, <<0, 4, 4>>, Grey),
             TriangleMesh(<<<<0, 0, 6>>, <<4, 0, 6>>, <<0, 4, 6>>, <<0, 0, 3>>,
                            <<4, 0, 3>>, <<0, 4, 3>>>>, <<0, 1, 2, 3, 4, 5>>, Grey)}
        RayOrigins ==
            {<<1, 1, -1>>, <<1, 1, 1>>, <<2, 1, 1>>, <<0, -1, 1>>, <<1, -1, 1>>,
             <<1, 1, 9>>}
        RayDirections ==
            {<<0, 0, 1>>, <<0, 0, -1>>, <<0, 1, 0>>, <<-1, 1, 0>>, <<0, 0, 0>>,
             <<1, 1, 1>>, <<0, 0, 2>>}
        HitQueries ==
            {[world |-> [NewWorld EXCEPT !.objects = os],
              ray |-> Ray(QV(o), QV(d)), tMin |-> tMin, tMax |-> tMax] :
                os \in SeqsUpTo(HitObjects, MaxWorldObjects) \ {<< >>},
                o \in RayOrigins, d \in RayDirections,
                tMin \in {Q(1, 1000), QInt(0)}, tMax \in {Infinity, QInt(5), QInt(9)}}
        Discriminant(oc, halfB, ray, s) ==
            QSub(QMul(halfB, halfB),
                 QMul(qdot(ray.direction, ray.direction),
                      QSub(qdot(oc, oc), QInt(s.radius * s.radius))))
        DiscriminantOc(oc, ray, s) == Discriminant(oc, qdot(oc, ray.direction), ray, s)
        SphereDiscriminant(s, ray) ==
            DiscriminantOc(qsub(ray.origin, QV(s.center)), ray, s)
        IsSquare(a) == QMul(QSqrt(a), QSqrt(a)) = a
        ExactRoot(ds) == QLt(ds, QInt(0)) \/ IsSquare(ds)
        ExactQuery(q) ==
            \A k \in 1..Len(q.world.objects) :
                q.world.objects[k].type = "Sphere" =>
                    ExactRoot(SphereDiscriminant(q.world.objects[k], q.ray))
    IN /\ UIInit
       /\ doc \in {q \in HitQueries : ExactQuery(q)}
       /\ result = NoResult
       /\ lpc = "input"

\* one call of World.hit(ray, tMin, tMax), and one of each object's hit
HitQuery ==
    /\ lpc = "input"
    /\ lpc' = "hit"
    /\ result' = [hit |-> World_hit(doc.world, doc.ray, doc.tMin, doc.tMax),
                  each |-> [k \in 1..Len(doc.world.objects) |->
                              Object_hit(doc.world.objects[k], doc.ray, doc.tMin,
                                         doc.tMax)]]
    /\ UNCHANGED <<doc, uiVars>>

SpecHit == HitInit /\ [][HitQuery]_vars

----------------------------------------------------------------------------
(* The TriangleMesh constructor exercised on its own: doc is            *)
(* [vertices, indices], result the mesh built from it.                     *)

MaxIndices == 6
MeshInit ==
    /\ UIInit
    /\ doc \in {[vertices |-> <<<<1, 0, 0>>, <<0, 1, 0>>, <<0, 0, 1>>>>, indices |-> ix] :
                  ix \in SeqsUpTo({-1, 0, 1, 2, 3}, MaxIndices)}
    /\ result = NoResult
    /\ lpc = "input"

\* new TriangleMesh(vertices, indices, material)
MeshBuild ==
    /\ lpc = "input"
    /\ lpc' = "built"
    /\ result' = TriangleMesh(doc.vertices, doc.indices, Grey)
    /\ UNCHANGED <<doc, uiVars>>

SpecMesh == MeshInit /\ [][MeshBuild]_vars

----------------------------------------------------------------------------
(* RayTracer.rayColor exercised on its own: doc is                      *)
(* [world, ray, depth, draws, altLights], result what rayColor returned    *)
(* for the world and for the same world holding the lights altLights.      *)
(* Every ray and every draw lies on a coordinate axis through the objects, *)
(* so that each square root the code takes is exact.                       *)

MaxBounces == 3
TraceInit ==
    LET Draws ==
            {[p |-> <<QInt(0), QInt(0), Q(1, 2)>>, r |-> QInt(0)],
             [p |-> <<QInt(0), QInt(0), Q(-1, 2)>>, r |-> Q(1, 2)]}
        \* the draws of a path: one draw repeated, or two draws alternating
        DrawSeqs ==
            {[k \in 1..Max(DefaultMaxBounces, MaxBounces) |->
                  IF k % 2 = 1 THEN a ELSE b] : a \in Draws, b \in Draws}
        TraceObjects ==
            {Box(<<0, 0, 0>>, <<2, 2, 2>>, Grey),
             Sphere(<<1, 1, 5>>, 1, Emissive(Vec3(10, 10, 10), 20)),
             Plane(<<0, 0, 8>>, <<0, 0, 1>>, Metal(Vec3(9, 9, 9), 10)),
             Sphere(<<1, 1, -4>>, 1, Dielectric(15))}
        TraceRays ==
            {Ray(QV(o), QV(d)) : o \in {<<1, 1, -1>>, <<1, 1, 3>>},
                                 d \in {<<0, 0, 1>>, <<0, 0, -1>>, <<0, 2, 0>>,
                                        <<0, 12, 5>>}}
        LightLists == {<< >>, <<PointLight(<<1, 1, 3>>, <<10, 10, 10>>, 10)>>}
        TraceDepths == {-1, 0} \cup {updateRenderSettings(m) : m \in 0..MaxBounces}
        TraceInputs ==
            {[world |-> [updateBackground(NewWorld, bg, 10)
                            EXCEPT !.objects = os, !.lights = ls],
              ray |-> ray, depth |-> depth, draws |-> draws, altLights |-> alt] :
                os \in SeqsUpTo(TraceObjects, MaxWorldObjects),
                bg \in {"gradient", "solid"}, ls \in LightLists, alt \in LightLists,
                ray \in TraceRays, depth \in TraceDepths, draws \in DrawSeqs}
    IN /\ UIInit
       /\ doc \in {d \in TraceInputs : d.altLights # d.world.lights}
       /\ result = NoResult
       /\ lpc = "input"

\* one call of rayColor(ray, depth), on the world and on its twin
TraceRay ==
    /\ lpc = "input"
    /\ lpc' = "traced"
    /\ result' = [out |-> rayColor(doc.world, doc.ray, doc.depth, doc.draws),
                  alt |-> rayColor([doc.world EXCEPT !.lights = doc.altLights],
                                   doc.ray, doc.depth, doc.draws)]
    /\ UNCHANGED <<doc, uiVars>>

SpecTrace == TraceInit /\ [][TraceRay]_vars

----------------------------------------------------------------------------
(* Properties of the render pass and of the control panel, checked under Spec *)

\* C1: once the cancellation flag is set while a pass is in flight, no step
\* computes or writes a further pixel, delivers a further progress value or
\* runs the denoise pass, every pixel already written keeps its value, and
\* the only move the pass still makes is its return.
C1_CancelStopsAtNextPoll ==
    [][(passes > 0 /\ renderCancelled) =>
          /\ data' = data
          /\ floatData' = floatData
          /\ pixelCount' = pixelCount
          /\ progressLog' = progressLog
          /\ denoiseRuns' = denoiseRuns
          /\ (rpc' # rpc => (rpc' = "idle" /\ passes' = 0))]_vars

\* a pass with denoising requested was cancelled in mid-frame: some but not
\* all pixels were computed and the denoise pass never ran
C1_Witness ==
    /\ outcome = "cancelled"
    /\ passes = 0
    /\ pixelCount > 0
    /\ pixelCount < totalPixels
    /\ denoising
    /\ denoiseRuns = 0

C3_OnePassInFlight ==
    [][/\ passes' <= 1
       /\ (passes' > 0 => isRendering')
       /\ (passes' > passes => ~isRendering)]_vars

\* a pass is suspended at a yield with a cancel request already made
C3_Witness ==
    /\ passes = 1
    /\ isRendering
    /\ renderCancelled
    /\ rpc \in {"inRow", "rowEnd"}

\* C4 as stated: while a pass is in flight no step replaces or reconfigures
\* the world, the camera, the output size or the pixel buffer.
C4_Original ==
    [][(passes > 0 /\ passes' > 0) =>
          UNCHANGED <<world, camera, width, height, imageData>>]_vars

\* C5 as stated: a pass that completes delivered height + 1 progress values,
\* the row values strictly increasing and the last value 1.
C5_Original ==
    (outcome = "complete" /\ passes = 0) =>
        /\ Len(progressLog) = passHeight + 1
        /\ \A k \in 1..(passHeight - 1) : RLess(progressLog[k], progressLog[k + 1])
        /\ progressLog[Len(progressLog)] = One

\* C6: a pass whose flag is set returns normally and render() ends in the
\* 'cancelled' outcome with the 'cancelled' status; the frame buffer is left
\* as it was, and isRendering is released.
C6_CancelIsNotAnError ==
    [][(passes > 0 /\ renderCancelled /\ rpc # "idle" /\ rpc' = "idle") =>
          /\ outcome' = "cancelled"
          /\ status' = "cancelled"
          /\ ~isRendering'
          /\ data' = data]_vars

\* a cancelled pass left a partly filled frame on display
C6_Witness ==
    /\ outcome = "cancelled"
    /\ status = "cancelled"
    /\ passes = 0
    /\ \E k \in DOMAIN data.px : data.px[k] # << >>
    /\ \E k \in DOMAIN data.px : data.px[k] = << >>

\* C7 as stated: a call of RayTracer.loadFromJSON that returns false leaves
\* world, camera, width, height and pixel buffer as they were.
C7_Original ==
    [][(loadsDone' = loadsDone + 1 /\ loadRet' = "false") =>
          UNCHANGED <<world, camera, width, height, imageData>>]_vars

\* C8 as stated: a scene-file load that does not succeed (unparseable text,
\* or loadFromJSON returning false) ends with the load-failure status.
C8_Original ==
    [][((loadsDone' = loadsDone + 1 /\ loadRet' = "false") \/ hung' = hung + 1) =>
          status' = "loaderror"]_vars

----------------------------------------------------------------------------
(* Properties of SceneLoader.loadFromJSON, checked under SpecLoader *)

----------------------------------------------------------------------------
(* Properties of the hit methods, checked under SpecHit *)

\* C11: World.hit returns the hit of minimal t among the intersections its
\* objects report with t in [tMin, tMax], both bounds included: whenever an
\* object has an intersection in that range, World.hit returns one of them
\* and no object has one with a smaller t.
C11_Original ==
    lpc = "hit" =>
        LET inRange == {h \in {result.each[k] : k \in 1..Len(result.each)} :
                          /\ ~IsNone(h)
                          /\ h.t # NaN
                          /\ ~QLt(h.t, doc.tMin)
                          /\ ~QGt(h.t, doc.tMax)}
        IN inRange # {} =>
              /\ result.hit \in inRange
              /\ \A h \in inRange : ~QLt(h.t, result.hit.t)

\* C12: every HitRecord returned by the hit method of a Sphere, Plane, Box,
\* Triangle or TriangleMesh called with the range [tMin, tMax] carries a t
\* with tMin <= t <= tMax.
C12_Original ==
    lpc = "hit" =>
        \A k \in 1..Len(result.each) :
            ~IsNone(result.each[k]) =>
                /\ result.each[k].t # NaN
                /\ ~QLt(result.each[k].t, doc.tMin)
                /\ ~QGt(result.each[k].t, doc.tMax)

\* C19: on degenerate inputs the hit methods report no hit instead of a
\* record with a NaN or infinite t: a ray parallel to a Plane or to a
\* Triangle gets no hit, Vec3.normalize of the zero vector is the zero
\* vector, and no HitRecord that a hit method returns (in particular none
\* that Box.hit returns for a ray with a zero direction component) carries
\* a NaN or infinite t.
C19_Original ==
    /\ normalize(<<0, 0, 0>>) = <<0, 0, 0>>
    /\ lpc = "hit" =>
          \A k \in 1..Len(result.each) :
              LET o == doc.world.objects[k]
                  h == result.each[k]
              IN /\ (o.type = "Plane"
                       /\ qdot(QV(o.normal), doc.ray.direction) = QInt(0))
                        => IsNone(h)
                 /\ (o.type = "Triangle"
                       /\ qdot(QV(TriangleNormal(o)), doc.ray.direction) = QInt(0))
                        => IsNone(h)
                 /\ ~IsNone(h) => h.t \notin {NaN, Infinity, QNeg(Infinity)}

\* C20: the normal of every HitRecord that Box.hit returns is aligned to
\* exactly one coordinate axis, and that axis is the axis of a slab whose
\* entry or exit parameter is the returned t (the face crossed at t), also
\* when the hit point lies on an edge or a corner and when the ray starts
\* inside the box.
C20_Original ==
    lpc = "hit" =>
        \A k \in 1..Len(result.each) :
            LET o == doc.world.objects[k]
                h == result.each[k]
                axes == {i \in 1..3 : h.normal[i] # QInt(0)}
            IN (o.type = "Box" /\ ~IsNone(h)) =>
                  /\ Cardinality(axes) = 1
                  /\ \A i \in axes :
                        /\ QAbs(h.normal[i]) = QInt(1)
                        /\ h.t # NaN
                        /\ \/ h.t = QDiv(QSub(QInt(o.min[i]), doc.ray.origin[i]),
                                         doc.ray.direction[i])
                           \/ h.t = QDiv(QSub(QInt(o.max[i]), doc.ray.origin[i]),
                                         doc.ray.direction[i])

----------------------------------------------------------------------------
(* Properties of the TriangleMesh constructor, checked under SpecMesh *)

\* C18: the constructor builds exactly one Triangle for each consecutive
\* index triple whose three indices all name a vertex, in the order of the
\* triples; an incomplete trailing triple and every triple holding an index
\* above the last vertex or a negative index is skipped.
C18_Original ==
    lpc = "built" =>
        LET valid == {j \in 0..(Len(doc.indices) \div 3 - 1) :
                        \A m \in 1..3 :
                            doc.indices[3 * j + m] \in 0..(Len(doc.vertices) - 1)}
            nth(k) == CHOOSE j \in valid : Cardinality({i \in valid : i < j}) = k - 1
        IN /\ Len(result.triangles) = Cardinality(valid)
           /\ \A k \in 1..Len(result.triangles) :
                 result.triangles[k] =
                     Triangle(doc.vertices[doc.indices[3 * nth(k) + 1] + 1],
                              doc.vertices[doc.indices[3 * nth(k) + 2] + 1],
                              doc.vertices[doc.indices[3 * nth(k) + 3] + 1], Grey)

----------------------------------------------------------------------------
(* Properties of the loaded background, checked under SpecLoader *)

\* C17: for every background type the loader accepts (gradient, solid,
\* hdri, procedural_sky) the background evaluator it installs on the World,
\* applied to a ray, returns a colour, and for the solid type that colour
\* is the colour of the description multiplied by the sky intensity.
C17_Original ==
    (/\ lpc = "loaded"
     /\ ~result.threw
     /\ Has(doc, "background")
     /\ Has(doc.background, "type")
     /\ doc.background.type \in {"gradient", "solid", "hdri", "procedural_sky"}) =>
        \A d \in {<<0, 0, 1>>, <<0, 1, 0>>, <<0, 0, 0>>} :
            LET w == result.value.world
                out == World_background(w, Ray(QV(<<0, 0, 0>>), QV(d)))
            IN /\ out.kind \in {"color", "sky"}
               /\ doc.background.type = "solid" =>
                     out.value = qmul(Tenths(_parseColor(FieldOr(doc.background, "color",
                                                                  <<1, 1, 1>>))),
                                      Tenth(w.skyIntensity))

----------------------------------------------------------------------------
(* Properties of rayColor, checked under SpecTrace *)

\* C13: with maxBounces set to 1 the colour rayColor returns for a ray is
\* exactly the emitted colour of the material of the nearest hit when an
\* object is hit, and exactly the value of the background for that ray
\* when nothing is hit; World.hit is called once, no second nearest-hit
\* query is made.
C13_SingleBounce ==
    (lpc = "traced" /\ doc.depth = updateRenderSettings(1)) =>
        /\ result.out.queries = 1
        /\ IF IsNone(World_hit(doc.world, doc.ray, Q(1, 1000), Infinity))
           THEN /\ result.out.kind = World_background(doc.world, doc.ray).kind
                /\ result.out.value = World_background(doc.world, doc.ray).value
           ELSE /\ result.out.kind = "color"
                /\ result.out.value =
                       Emitted(World_hit(doc.world, doc.ray, Q(1, 1000),
                                         Infinity).material)

\* a ray that hits a scattering (Lambertian) surface at depth 1: the colour
\* is that material's emitted colour, black
C13_Witness ==
    /\ lpc = "traced"
    /\ doc.depth = 1
    /\ ~IsNone(World_hit(doc.world, doc.ray, Q(1, 1000), Infinity))
    /\ World_hit(doc.world, doc.ray, Q(1, 1000), Infinity).material.type = "Lambertian"
    /\ result.out.value = QV(<<0, 0, 0>>)
    /\ result.out.queries = 1

\* C14: the recursion of rayColor ends for every ray and every depth: at
\* depth <= 0 it returns black without calling World.hit, and for
\* depth >= 1 it calls World.hit at most depth times.
C14_DepthBound ==
    lpc = "traced" =>
        /\ result.out.queries <= Max(doc.depth, 0)
        /\ doc.depth <= 0 =>
              /\ result.out.kind = "color"
              /\ result.out.value = QV(<<0, 0, 0>>)
              /\ result.out.queries = 0

\* a path that uses the whole budget: depth 3 and three calls of World.hit
C14_Witness ==
    /\ lpc = "traced"
    /\ doc.depth = 3
    /\ result.out.queries = 3

----------------------------------------------------------------------------
(* Properties of the denoise pass, checked under Spec *)

\* C16: PostProcessor.denoise runs at most once per pass, and only in a
\* step of a pass for which denoising is enabled, whose cancellation flag
\* is not set when the row loop ends, and which has written all
\* width * height pixels of the frame; it never runs on a partially filled
\* frame, and the final completion callback (progress 1) follows it in the
\* same step.
C16_Original ==
    [][denoiseRuns' > denoiseRuns =>
          /\ denoising
          /\ denoiseRuns = 0
          /\ denoiseRuns' = 1
          /\ ~renderCancelled
          /\ pixelCount' = totalPixels'
          /\ progressLog' # << >>
          /\ progressLog'[Len(progressLog')] = One]_vars

----------------------------------------------------------------------------
(* Properties of material.scatter, checked under SpecScatter *)

\* C21: a Dielectric with index of refraction 1 never changes the ray's
\* direction: for every incidence angle and every random draw the scattered
\* ray's direction is the normalized incident direction.
C21_Original ==
    (lpc = "scattered" /\ doc.material = Dielectric(10))
        => result.scattered.direction = qnormalize(doc.ray.direction)

----------------------------------------------------------------------------
(* Properties of Triangle.hit, checked under SpecHit *)

\* C22: Triangle.hit accepts an intersection only when its barycentric
\* parameters satisfy u >= 0, v >= 0 and u + v <= 1, and rejects every ray
\* whose parameters fall outside that region; the (u, v) stored in the
\* HitRecord are those parameters: the hit point is v0 + u*edge1 + v*edge2.
\* The parameters of a ray are computed here from the point where the ray
\* meets the triangle's plane, not by the Moller-Trumbore steps of the code.
C22_Barycentric ==
    LET Corner(tr, u, v) ==
            qadd(QV(tr.v0), qadd(qmul(QV(sub(tr.v1, tr.v0)), u),
                                 qmul(QV(sub(tr.v2, tr.v0)), v)))
        Inside(u, v) ==
            /\ ~QLt(u, QInt(0))
            /\ ~QLt(v, QInt(0))
            /\ ~QLt(QInt(1), QAdd(u, v))
        \* the parameters of the point p of the triangle's plane
        PlaneU(tr, n, p) ==
            QDiv(qdot(qcross(qsub(p, QV(tr.v0)), QV(sub(tr.v2, tr.v0))), n),
                 qdot(n, n))
        PlaneV(tr, n, p) ==
            QDiv(qdot(qcross(QV(sub(tr.v1, tr.v0)), qsub(p, QV(tr.v0))), n),
                 qdot(n, n))
        Meets(tr, n, ray) ==
            at(ray, QDiv(qdot(qsub(QV(tr.v0), ray.origin), n),
                         qdot(ray.direction, n)))
        Rejected(tr, n, ray) ==
            /\ qdot(ray.direction, n) # QInt(0)
            /\ ~Inside(PlaneU(tr, n, Meets(tr, n, ray)),
                       PlaneV(tr, n, Meets(tr, n, ray)))
        TriangleOk(tr, h) ==
            /\ ~IsNone(h) =>
                   /\ Inside(h.u, h.v)
                   /\ h.point = Corner(tr, h.u, h.v)
            /\ Rejected(tr, qcross(QV(sub(tr.v1, tr.v0)), QV(sub(tr.v2, tr.v0))),
                        doc.ray) => IsNone(h)
    IN lpc = "hit" =>
           \A k \in 1..Len(doc.world.objects) :
               doc.world.objects[k].type = "Triangle" =>
                   TriangleOk(doc.world.objects[k], result.each[k])

\* a triangle accepts a ray strictly inside it and stores its parameters
C22_Witness ==
    /\ lpc = "hit"
    /\ \E k \in 1..Len(doc.world.objects) :
           /\ doc.world.objects[k].type = "Triangle"
           /\ ~IsNone(result.each[k])
           /\ result.each[k].u = Q(1, 4)
           /\ result.each[k].v = Q(1, 4)

----------------------------------------------------------------------------
(* The recurrence of rayColor, checked under SpecTrace *)

\* C23: for depth >= 1 and a ray whose nearest hit exists, rayColor returns
\* emitted + attenuation * rayColor(scattered, depth - 1), a component-wise
\* product, when the material scatters, and exactly emitted when it does not
\* (an Emissive, or a Metal whose scattered ray points into the surface);
\* the background is what it returns only when no primitive is hit.
C23_Recurrence ==
    LET \* the emitted colour, from the material's fields
        emittedOf(m) ==
            IF m.type = "Emissive"
            THEN <<QMul(Tenth(m.color[1]), Tenth(m.intensity)),
                   QMul(Tenth(m.color[2]), Tenth(m.intensity)),
                   QMul(Tenth(m.color[3]), Tenth(m.intensity))>>
            ELSE <<QInt(0), QInt(0), QInt(0)>>
        Sum(e, a, c) ==
            <<QAdd(e[1], QMul(a[1], c[1])), QAdd(e[2], QMul(a[2], c[2])),
              QAdd(e[3], QMul(a[3], c[3]))>>
        Scatters(hit, sc, inner) ==
            /\ inner.kind = "color" =>
                   /\ result.out.kind = "color"
                   /\ result.out.value =
                          Sum(emittedOf(hit.material), sc.attenuation, inner.value)
            /\ result.out.queries = 1 + inner.queries
        Hits(hit, sc) ==
            IF IsNone(sc)
            THEN /\ result.out.kind = "color"
                 /\ result.out.value = emittedOf(hit.material)
                 /\ result.out.queries = 1
            ELSE Scatters(hit, sc, rayColor(doc.world, sc.scattered, doc.depth - 1,
                                            Tail(doc.draws)))
        Nearest(hit) ==
            IF IsNone(hit)
            THEN /\ result.out.kind = World_background(doc.world, doc.ray).kind
                 /\ result.out.value = World_background(doc.world, doc.ray).value
            ELSE /\ Hits(hit, scatter(hit.material, doc.ray, hit, Head(doc.draws)))
                 /\ result.out.kind = "color"
    IN (lpc = "traced" /\ doc.depth >= 1) =>
           Nearest(World_hit(doc.world, doc.ray, Q(1, 1000), Infinity))

\* a ray that hits a Metal surface whose scattered ray points into the
\* surface: the colour is the emitted colour of the metal, black, although
\* the depth allows further bounces and the background is not black
C23_Witness ==
    /\ lpc = "traced"
    /\ doc.depth >= 2
    /\ ~IsNone(World_hit(doc.world, doc.ray, Q(1, 1000), Infinity))
    /\ World_hit(doc.world, doc.ray, Q(1, 1000), Infinity).material.type = "Metal"
    /\ result.out.queries = 1
    /\ result.out.value = QV(<<0, 0, 0>>)

----------------------------------------------------------------------------
(* Properties of the pixel buffers of a pass, checked under Spec *)

\* C24: at every point of a render pass the pixels written to the float
\* buffer and to the 8-bit buffer are a row-major prefix of the image
\* buffer: the first pixelCount entries are written and no other, and the
\* entry at row k, column i holds the sample of image coordinate
\* (i, height - 1 - k), so that each pixel was written exactly once.
C24_Original ==
    LET w == totalPixels \div passHeight
        Written(p) ==
            /\ floatData[p + 1] = Colour(p % w, passHeight - 1 - (p \div w))
            /\ data.px[p + 1] = floatData[p + 1]
    IN rpc \in {"inRow", "rowEnd"} =>
           \A p \in 0..(Len(floatData) - 1) :
               IF p < pixelCount THEN Written(p) ELSE floatData[p + 1] = << >>

----------------------------------------------------------------------------
(* Properties of hit records and of TriangleMesh.hit, checked under SpecHit *)

\* C25: in every HitRecord returned by a primitive's hit the normal has unit
\* length and points against the incoming ray (dot(ray.direction, normal)
\* <= 0), and frontFace is true exactly when the outward normal (the stored
\* normal, flipped back when frontFace is false) has a negative dot product
\* with the ray direction.
C25_Original ==
    LET Outward(h) == IF h.frontFace THEN h.normal ELSE qmul(h.normal, QInt(-1))
        NormalOk(h) ==
            /\ qdot(h.normal, h.normal) = QInt(1)
            /\ QLt(qdot(doc.ray.direction, h.normal), QInt(0))
                   \/ qdot(doc.ray.direction, h.normal) = QInt(0)
            /\ h.frontFace <=> QLt(qdot(doc.ray.direction, Outward(h)), QInt(0))
    IN lpc = "hit" =>
           \A k \in 1..Len(result.each) :
               ~IsNone(result.each[k]) => NormalOk(result.each[k])

\* C26: TriangleMesh.hit(ray, tMin, tMax) returns a hit whose t is minimal
\* among the intersections of its triangles that lie in [tMin, tMax],
\* whatever the order of the triangles, and returns nothing only when no
\* triangle is hit in that range.
C26_MeshNearest ==
    LET Reversed(m) ==
            [m EXCEPT !.triangles =
                 [k \in 1..Len(m.triangles) |-> m.triangles[Len(m.triangles) + 1 - k]]]
        \* what each triangle answers on its own for the whole range
        Alone(m) ==
            {h \in {Triangle_hit(m.triangles[k], doc.ray, doc.tMin, doc.tMax) :
                        k \in 1..Len(m.triangles)} : ~IsNone(h)}
        Nearest(h, hits) ==
            IF hits = {} THEN IsNone(h)
            ELSE /\ ~IsNone(h)
                 /\ \E x \in hits : x.t = h.t
                 /\ \A x \in hits : ~QLt(x.t, h.t)
        MeshOk(m, h) ==
            /\ Nearest(h, Alone(m))
            /\ Nearest(TriangleMesh_hit(Reversed(m), doc.ray, doc.tMin, doc.tMax),
                       Alone(m))
    IN lpc = "hit" =>
           \A k \in 1..Len(doc.world.objects) :
               doc.world.objects[k].type = "TriangleMesh" =>
                   MeshOk(doc.world.objects[k], result.each[k])

\* a ray that crosses both triangles of the mesh, the nearer one second in
\* the list: the hit returned is the nearer one
C26_Witness ==
    /\ lpc = "hit"
    /\ \E k \in 1..Len(doc.world.objects) :
           /\ doc.world.objects[k].type = "TriangleMesh"
           /\ ~IsNone(Triangle_hit(doc.world.objects[k].triangles[1], doc.ray,
                                   doc.tMin, doc.tMax))
           /\ ~IsNone(Triangle_hit(doc.world.objects[k].triangles[2], doc.ray,
                                   doc.tMin, doc.tMax))
           /\ ~IsNone(result.each[k])
           /\ result.each[k].t =
                  Triangle_hit(doc.world.objects[k].triangles[2], doc.ray,
                               doc.tMin, doc.tMax).t
           /\ QLt(result.each[k].t,
                  Triangle_hit(doc.world.objects[k].triangles[1], doc.ray,
                               doc.tMin, doc.tMax).t)

----------------------------------------------------------------------------
(* The end of a pass, checked under SpecLive *)

----------------------------------------------------------------------------
(* Properties of render() and updateCamera, checked under Spec *)

\* C28: a cancellation requested while no pass is in flight, or left over
\* from a cancelled pass, does not affect the next pass: the step that
\* starts a pass clears the flag and leaves the pass suspended in its row
\* loop, no step taken while no pass is in flight ends a pass or clears the
\* flag otherwise, and a pass during which the flag stayed clear ends
\* complete with the final progress value 1.
C28_LeftoverCancelIgnored ==
    [][/\ (~isRendering /\ isRendering') =>
              /\ ~renderCancelled'
              /\ rpc' \in {"inRow", "rowEnd"}
              /\ outcome' = "running"
       /\ (~isRendering /\ ~isRendering') =>
              /\ outcome' = outcome
              /\ renderCancelled => renderCancelled'
       /\ (isRendering /\ ~renderCancelled /\ ~isRendering') =>
              /\ outcome' = "complete"
              /\ progressLog' # << >>
              /\ progressLog'[Len(progressLog')] = One]_vars

\* the flag left set by a pass that was cancelled half way, with no pass in
\* flight: the state in which the next click on Render finds the renderer
C28_Witness ==
    /\ ~isRendering
    /\ RenderGuard(isRendering)
    /\ renderCancelled
    /\ rpc = "idle"
    /\ outcome = "cancelled"
    /\ pixelCount > 0
    /\ pixelCount < totalPixels

\* C29: after updateCamera(params) the new camera's fov, aperture, focusDist
\* and type are the values params gives (an aperture of 0 included), and
\* the camera position and viewing direction are kept when params gives no
\* position, lookAt or up.  render() calls it with the four values of the
\* panel: fov 45, aperture 0, focusDist 10, type perspective.
C29_Original ==
    [][(~isRendering /\ isRendering') =>
          /\ camera'.fov = 45
          /\ camera'.aperture = 0
          /\ camera'.focusDist = 10
          /\ camera'.type = "perspective"
          /\ camera'.origin = camera.origin
          /\ camera'.w = camera.w]_vars

----------------------------------------------------------------------------
(* Properties of PerlinNoise, checked under SpecNoise *)

\* C30: after construction the PerlinNoise table has 512 entries, entries
\* 0..255 are a permutation of 0..255 and entry i + 256 equals entry i;
\* every table index noise() reads lies in 0..511, so that no lookup falls
\* outside the table.
C30_TableAndReads ==
    lpc = "noise" =>
        /\ Len(result.p) = 512
        /\ {result.p[k] : k \in 1..256} = 0..255
        /\ \A i \in 0..255 : result.p[i + 256 + 1] = result.p[i + 1]
        /\ \A k \in 1..Len(result.out.reads) : result.out.reads[k] \in 0..511

\* a shuffled table, and a call of noise whose reads go into the second
\* copy of the table (an index of 256 or more)
C30_Witness ==
    /\ lpc = "noise"
    /\ \E k \in 1..256 : result.p[k] # k - 1
    /\ \E k \in 1..Len(result.out.reads) : result.out.reads[k] >= 256
    /\ result.out.value # NaN
====
